---- MODULE Spec2Model ----
(***************************************************************************)
(* The stage execution engine of the repository: StageManager (registry    *)
(* and Kahn-style execution plan), MetricsCollector (counters, timings,    *)
(* snapshots), GovernanceEngine (run(), history) and DashboardServer       *)
(* (request handling); and the layer pipeline of DAXGovernanceCore and of  *)
(* the SDK's runner.                                                       *)
(***************************************************************************)
EXTENDS Naturals, Integers, Sequences, FiniteSets, TLC

\* ------------------------------------------------------------------ bounds

\* Total number of declared dependency entries over the whole registry.
MaxDependencies == 2
\* Number of run() invocations made on the engine.
MaxRuns == 2
\* The elapsed time (ms) performance.now() measures for a unit of work.
ElapsedMs == 1

\* The stage ids that get registered (ids are unique, so at most three stages).
StageIds == {"a", "b", "c"}

\* Every dependencies array of at most k entries (duplicates allowed).
DepLists(k) == UNION {[1..n -> StageIds] : n \in 0..k}

\* The units of work registered: what the one of stage `id` returns when it
\* completes, and what it throws when it fails: an Error with a message for
\* stage a, a number (no Error) for the others; or, for any stage, an object
\* that has no string conversion, such as Object.create(null).
Output(id) == <<"output of", id>>
Thrown(id) ==
    IF id = "a" THEN [isError |-> TRUE, message |-> "boom"]
    ELSE [isError |-> FALSE, kind |-> "number", value |-> 7]
BareObject == [isError |-> FALSE, kind |-> "object without toString"]

\* The arguments run(input, metadata) is called with.
Input == "the run's input"
Metadata == [requestedBy |-> "caller"]

VARIABLES
    stages,     \* StageManager.stages: the Map, as its entries in insertion order
    options,    \* GovernanceEngineOptions the engine was constructed with
    metrics,    \* MetricsCollector.metrics
    history,    \* GovernanceEngine.history
    started,    \* number of run() invocations so far (the next run's id)
    frames,     \* the locals of each run() suspended at its await
    settled,    \* the latest run() to settle: its promise's outcome, its locals
    caller,     \* what the calling code holds: its latest call and what it got
    server,     \* DashboardServer.server
    pipeline,   \* the locals of the layer pipeline's run suspended at its await
    enforcer    \* the LoopEnforcer: its config.mysticalKeywords and loopStates

vars ==
    <<stages, options, metrics, history, started, frames, settled, caller,
      server, pipeline, enforcer>>

\* this.server of a DashboardServer that was not started (undefined).
NoServer == "none"

\* No layer pipeline has been run.
NoPipeline == [at |-> "none"]

\* No LoopEnforcer has been constructed.
NoEnforcer == [constructed |-> FALSE]

\* ------------------------------------------------------------ StageManager

RegisteredIds(reg) == {reg[i].id : i \in 1..Len(reg)}

\* this.stages.has(id)
Has(reg, id) == id \in RegisteredIds(reg)

\* this.stages.get(id), for a registered id
GetStage(reg, id) == reg[CHOOSE i \in 1..Len(reg) : reg[i].id = id]

RECURSIVE SumDeps(_)
SumDeps(reg) ==
    IF reg = <<>> THEN 0 ELSE Len(Head(reg).dependencies) + SumDeps(Tail(reg))

NoError == [error |-> "none"]

\* Set.add on a Set kept in insertion order.
SetAdd(s, x) == IF \E i \in 1..Len(s) : s[i] = x THEN s ELSE Append(s, x)

\* Mutant of ScanDependencies: a dependency that is not registered is passed
\* over instead of being reported.
RECURSIVE ScanDependenciesUnvalidated(_, _, _, _, _)
ScanDependenciesUnvalidated(reg, id, deps, k, acc) ==
    IF k > Len(deps) THEN acc
    ELSE LET dependency == deps[k] IN
         IF ~Has(reg, dependency)
         THEN ScanDependenciesUnvalidated(reg, id, deps, k + 1, acc)
         ELSE ScanDependenciesUnvalidated(reg, id, deps, k + 1,
                [acc EXCEPT
                    !.graph = IF dependency \in DOMAIN acc.graph
                              THEN [acc.graph EXCEPT
                                       ![dependency] = SetAdd(@, id)]
                              ELSE acc.graph,
                    !.inDegree = [acc.inDegree EXCEPT ![id] = @ + 1]])

\* The inner loop of the first pass: the dependencies of stage `id`, from the
\* k-th on. acc = [inDegree, graph, error]; a missing dependency throws.
RECURSIVE ScanDependencies(_, _, _, _, _)
ScanDependencies(reg, id, deps, k, acc) ==
    IF k > Len(deps) THEN acc
    ELSE LET dependency == deps[k] IN
         IF ~Has(reg, dependency)
         THEN [acc EXCEPT !.error =
                  [error |-> "depends on missing stage",
                   stage |-> id, dependency |-> dependency]]
         ELSE ScanDependencies(reg, id, deps, k + 1,
                [acc EXCEPT
                    \* graph.get(dependency)?.add(id): a dependency the loop has
                    \* not reached yet has no entry in graph, and nothing is added
                    !.graph = IF dependency \in DOMAIN acc.graph
                              THEN [acc.graph EXCEPT
                                       ![dependency] = SetAdd(@, id)]
                              ELSE acc.graph,
                    !.inDegree = [acc.inDegree EXCEPT ![id] = @ + 1]])

\* The first pass: for (const [id, stage] of this.stages.entries()), from the
\* i-th entry on.
RECURSIVE ScanStages(_, _, _)
ScanStages(reg, i, acc) ==
    IF i > Len(reg) \/ acc.error # NoError THEN acc
    ELSE LET id == reg[i].id
             entered == [acc EXCEPT
                            !.inDegree = (id :> 0) @@ acc.inDegree,
                            !.graph = (id :> <<>>) @@ acc.graph]
         IN ScanStages(reg, i + 1,
                ScanDependencies(reg, id, reg[i].dependencies, 1, entered))

\* inDegree.entries() is in insertion order: the registration order.
SeedQueue(reg, inDegree) ==
    SelectSeq([i \in 1..Len(reg) |-> reg[i].id], LAMBDA id : inDegree[id] = 0)

\* Mutant of Release: a released dependent is put at the front of the queue
\* (unshift) instead of the back.
RECURSIVE ReleaseToFront(_, _, _, _)
ReleaseToFront(dependents, k, inDegree, queue) ==
    IF k > Len(dependents) THEN [inDegree |-> inDegree, queue |-> queue]
    ELSE LET dependent == dependents[k]
             nextDegree == inDegree[dependent] - 1
         IN ReleaseToFront(dependents, k + 1,
                    [inDegree EXCEPT ![dependent] = nextDegree],
                    IF nextDegree = 0 THEN <<dependent>> \o queue ELSE queue)

\* for (const dependent of graph.get(id) ?? []): the dependents from the k-th.
RECURSIVE Release(_, _, _, _)
Release(dependents, k, inDegree, queue) ==
    IF k > Len(dependents) THEN [inDegree |-> inDegree, queue |-> queue]
    ELSE LET dependent == dependents[k]
             nextDegree == inDegree[dependent] - 1
         IN Release(dependents, k + 1,
                    [inDegree EXCEPT ![dependent] = nextDegree],
                    IF nextDegree = 0 THEN Append(queue, dependent) ELSE queue)

\* while (queue.length > 0) { const id = queue.shift(); if (!id) break; ... }
RECURSIVE Drain(_, _, _, _)
Drain(graph, inDegree, queue, ordered) ==
    IF queue = <<>> THEN ordered
    ELSE LET id == Head(queue) IN
         IF id = "" THEN ordered
         ELSE LET r == Release(graph[id], 1, inDegree, Tail(queue))
              IN Drain(graph, r.inDegree, r.queue, Append(ordered, id))

\* Mutant of GetExecutionPlan: the length of the ordered list is not compared
\* with the number of registered stages.
GetExecutionPlanUnchecked(reg) ==
    LET scan == ScanStages(reg, 1,
                    [inDegree |-> <<>>, graph |-> <<>>, error |-> NoError])
    IN IF scan.error # NoError THEN scan.error
       ELSE [error |-> "none",
             ordered |-> Drain(scan.graph, scan.inDegree,
                               SeedQueue(reg, scan.inDegree), <<>>)]

\* StageManager.getExecutionPlan(): [error |-> "none", ordered |-> ids in plan
\* order] when it returns, and the error it throws otherwise.
GetExecutionPlan(reg) ==
    LET scan == ScanStages(reg, 1,
                    [inDegree |-> <<>>, graph |-> <<>>, error |-> NoError])
    IN IF scan.error # NoError THEN scan.error
       ELSE LET ordered == Drain(scan.graph, scan.inDegree,
                                 SeedQueue(reg, scan.inDegree), <<>>)
            IN IF Len(ordered) # Len(reg)
               THEN [error |-> "Stage dependency cycle detected"]
               ELSE [error |-> "none", ordered |-> ordered]

\* Mutant of AddStage: this.stages.set(stage.id, stage) without the has()
\* check, so a registered id gets the new stage.
AddStageOverwrites(reg, stage) ==
    IF Has(reg, stage.id)
    THEN [i \in 1..Len(reg) |-> IF reg[i].id = stage.id THEN stage ELSE reg[i]]
    ELSE Append(reg, stage)

\* StageManager.addStage(stage) on registry reg: the registry afterwards.
AddStage(reg, stage) == IF Has(reg, stage.id) THEN reg ELSE Append(reg, stage)

\* -------------------------------------------------------- MetricsCollector

\* Mutant of RecordCounter: the counter keeps the latest increment only.
RecordCounterLatest(m, operation, increment) ==
    (operation :> [type |-> "counter", value |-> increment]) @@ m

\* MetricsCollector.recordCounter(operation, increment) on the Map m. (The
\* Map's iteration order is not modelled: m is a function of the keys.)
RecordCounter(m, operation, increment) ==
    IF operation \in DOMAIN m /\ m[operation].type = "counter"
    THEN [m EXCEPT ![operation].value = @ + increment]
    ELSE (operation :> [type |-> "counter", value |-> increment]) @@ m

\* Mutant of RecordTiming: the newest sample is put first.
RecordTimingNewestFirst(m, operation, durationMs) ==
    IF operation \in DOMAIN m /\ m[operation].type = "timing"
    THEN [m EXCEPT ![operation].values = <<durationMs>> \o @]
    ELSE (operation :> [type |-> "timing", values |-> <<durationMs>>]) @@ m

\* MetricsCollector.recordTiming(operation, durationMs) on the Map m.
RecordTiming(m, operation, durationMs) ==
    IF operation \in DOMAIN m /\ m[operation].type = "timing"
    THEN [m EXCEPT ![operation].values = Append(@, durationMs)]
    ELSE (operation :> [type |-> "timing", values |-> <<durationMs>>]) @@ m

\* values.reduce((sum, value) => sum + value, 0)
RECURSIVE Total(_)
Total(values) ==
    IF values = <<>> THEN 0 ELSE Head(values) + Total(Tail(values))

RECURSIVE GCD(_, _)
GCD(x, y) == IF y = 0 THEN x ELSE GCD(y, x % y)

\* total / length for a sum of whole milliseconds: the quotient, written as
\* the fraction in lowest terms (15 is 15/1). Rounding to a double is not
\* modelled.
Quotient(total, length) ==
    [numerator |-> total \div GCD(total, length),
     denominator |-> length \div GCD(total, length)]

\* Mutant of CopyValues: the snapshot holds metric.values itself.
SharedValues(operation, values) ==
    [own |-> FALSE, operation |-> operation, items |-> values]

\* [...metric.values]: an array of the snapshot's own with the samples of the
\* moment.
CopyValues(operation, values) ==
    [own |-> TRUE, operation |-> operation, items |-> values]

\* The entry getSnapshot() makes for one metric of the Map.
SnapshotEntry(operation, metric) ==
    IF metric.type = "counter"
    THEN [type |-> "counter", value |-> metric.value]
    ELSE [type |-> "timing",
          count |-> Len(metric.values),
          averageMs |-> IF Len(metric.values) # 0
                        THEN Quotient(Total(metric.values), Len(metric.values))
                        ELSE Quotient(0, 1),
          values |-> CopyValues(operation, metric.values)]

\* MetricsCollector.getSnapshot() on the Map m: a new object with one new
\* entry per metric.
GetSnapshot(m) == [name \in DOMAIN m |-> SnapshotEntry(name, m[name])]

\* -------------------------------------------------------- GovernanceEngine

\* `stage.${stage.id}.duration`
DurationKey(id) == "stage." \o id \o ".duration"

\* this.metricsCollector?.recordCounter(operation)
EngineCounter(m, operation) ==
    IF options.metricsCollector THEN RecordCounter(m, operation, 1) ELSE m

\* this.metricsCollector?.recordTiming(operation, durationMs)
EngineTiming(m, operation, durationMs) ==
    IF options.metricsCollector THEN RecordTiming(m, operation, durationMs) ELSE m

\* The collector the engine was constructed with is one whose recordCounter
\* throws when called with one of the operations it was built to fail on, or
\* whose recordTiming throws; the repository's MetricsCollector never throws.
CollectorThrows(method, operation) ==
    /\ options.metricsCollector
    /\ "throwsOn" \in DOMAIN options
    /\ IF method = "recordCounter" THEN operation \in options.throwsOn
       ELSE method \in options.throwsOn

\* What such a collector throws, as the catch block receives it and as it
\* leaves run().
CollectorFailure == [isError |-> TRUE, message |-> "collector failed"]
CollectorError == [error |-> "collector failed"]

\* String(value) of a number (here: a digit).
String(value) ==
    CASE value = 0 -> "0" [] value = 1 -> "1" [] value = 2 -> "2"
      [] value = 3 -> "3" [] value = 4 -> "4" [] value = 5 -> "5"
      [] value = 6 -> "6" [] value = 7 -> "7" [] value = 8 -> "8"
      [] value = 9 -> "9"

\* String(error) throws a TypeError for an object that cannot be converted to
\* a primitive value.
StringThrows(error) == ~error.isError /\ error.kind = "object without toString"

TypeError == [error |-> "Cannot convert object to primitive value"]

\* error instanceof Error ? error.message : String(error), when it returns
ErrorText(error) == IF error.isError THEN error.message ELSE String(error.value)

\* results[dependencyId]?.status
DependencyStatus(results, dependencyId) ==
    IF dependencyId \in DOMAIN results THEN results[dependencyId].status
    ELSE "undefined"

\* Mutant of MustSkip: only a failed dependency blocks a stage, a skipped one
\* does not.
MustSkipOnFailedOnly(results, stage) ==
    \E k \in 1..Len(stage.dependencies) :
        DependencyStatus(results, stage.dependencies[k]) = "failed"

\* Mutant of MustSkip: only the first declared dependency is looked at.
MustSkipOnFirstDependency(results, stage) ==
    /\ Len(stage.dependencies) > 0
    /\ DependencyStatus(results, stage.dependencies[1]) # "success"

\* Mutant of MustSkip: the results recorded by the other runs under way block
\* a stage as well.
MustSkipOnAnyRun(results, stage) ==
    \E k \in 1..Len(stage.dependencies) :
        \/ DependencyStatus(results, stage.dependencies[k]) # "success"
        \/ \E id \in DOMAIN frames :
              /\ stage.dependencies[k] \in DOMAIN frames[id].results
              /\ frames[id].results[stage.dependencies[k]].status # "success"

\* dependencyStatuses.some((status) => status !== "success")
MustSkip(results, stage) ==
    \E k \in 1..Len(stage.dependencies) :
        DependencyStatus(results, stage.dependencies[k]) # "success"

SkippedResult(stage) ==
    [stageId |-> stage.id, status |-> "skipped", durationMs |-> 0,
     skippedReason |-> "Dependency failed or skipped"]

SuccessResult(stage, output, durationMs) ==
    [stageId |-> stage.id, status |-> "success", output |-> output,
     durationMs |-> durationMs]

FailedResult(stage, error, durationMs) ==
    [stageId |-> stage.id, status |-> "failed", durationMs |-> durationMs,
     errors |-> <<ErrorText(error)>>]

\* results[stage.id] = result; stageResults.push(result)
Record(f, result) ==
    [f EXCEPT !.results = (result.stageId :> result) @@ f.results,
              !.stageResults = Append(f.stageResults, result)]

\* Mutant of SkipStage: the skipped result is put in the results mapping but
\* not pushed onto stageResults.
SkipStageUnlisted(f, m, stage) ==
    [frame |-> [f EXCEPT !.results = (stage.id :> SkippedResult(stage)) @@ f.results],
     metrics |-> EngineCounter(m, "stages.skipped"),
     thrown |-> NoError]

\* Mutant of SkipStage: the skipped stage is timed as well, with duration 0.
SkipStageTimed(f, m, stage) ==
    [frame |-> Record(f, SkippedResult(stage)),
     metrics |-> EngineTiming(EngineCounter(m, "stages.skipped"),
                              DurationKey(stage.id), 0),
     thrown |-> NoError]

\* The skip branch of the loop body, on the locals f and the collector m. It
\* is outside the try statement: what recordCounter throws leaves run().
SkipStage(f, m, stage) ==
    IF CollectorThrows("recordCounter", "stages.skipped")
    THEN [frame |-> Record(f, SkippedResult(stage)), metrics |-> m,
          thrown |-> CollectorError]
    ELSE [frame |-> Record(f, SkippedResult(stage)),
          metrics |-> EngineCounter(m, "stages.skipped"),
          thrown |-> NoError]

\* Mutant of StageSucceeded: the success is recorded and timed but not
\* counted.
StageSucceededUncounted(f, m, stage, output, durationMs) ==
    [frame |-> Record(f, SuccessResult(stage, output, durationMs)),
     metrics |-> EngineTiming(m, DurationKey(stage.id), durationMs),
     thrown |-> NoError]

\* The catch branch: the unit of work threw, or its promise rejected, or a
\* statement of the try branch after the await threw. When String(error)
\* throws while the result is being built, nothing is recorded and the
\* TypeError leaves the catch block; what the collector throws in the catch
\* block leaves it too, after the failed result was recorded.
StageFailed(f, m, stage, error, durationMs) ==
    IF StringThrows(error)
    THEN [frame |-> f, metrics |-> m, thrown |-> TypeError]
    ELSE LET g == Record(f, FailedResult(stage, error, durationMs)) IN
         IF CollectorThrows("recordCounter", "stages.failed")
         THEN [frame |-> g, metrics |-> m, thrown |-> CollectorError]
         ELSE IF CollectorThrows("recordTiming", DurationKey(stage.id))
         THEN [frame |-> g, metrics |-> EngineCounter(m, "stages.failed"),
               thrown |-> CollectorError]
         ELSE [frame |-> g,
               metrics |-> EngineTiming(EngineCounter(m, "stages.failed"),
                                        DurationKey(stage.id), durationMs),
               thrown |-> NoError]

\* The try branch after the await: the unit of work returned `output`. The
\* result is recorded, then the collector is called: what it throws is caught
\* by the catch block of the same try statement.
StageSucceeded(f, m, stage, output, durationMs) ==
    LET g == Record(f, SuccessResult(stage, output, durationMs)) IN
    IF CollectorThrows("recordCounter", "stages.success")
    THEN StageFailed(g, m, stage, CollectorFailure, durationMs)
    ELSE IF CollectorThrows("recordTiming", DurationKey(stage.id))
    THEN StageFailed(g, EngineCounter(m, "stages.success"), stage,
                     CollectorFailure, durationMs)
    ELSE [frame |-> g,
          metrics |-> EngineTiming(EngineCounter(m, "stages.success"),
                                   DurationKey(stage.id), durationMs),
          thrown |-> NoError]

\* What the unit of work of stage `id` throws: the bare object, or its own
\* error.
ThrownBy(id, bare) == IF bare THEN BareObject ELSE Thrown(id)

\* Mutant of Context: each unit of work is handed the output of the latest
\* stage that succeeded, as in a pipeline, instead of the run's input.
ContextPipelined(f) ==
    [input |-> IF \E k \in 1..Len(f.stageResults) :
                     f.stageResults[k].status = "success"
               THEN f.stageResults[
                       CHOOSE k \in 1..Len(f.stageResults) :
                          /\ f.stageResults[k].status = "success"
                          /\ \A j \in (k + 1)..Len(f.stageResults) :
                                f.stageResults[j].status # "success"].output
               ELSE f.input,
     results |-> f.results,
     metadata |-> f.metadata]

\* const context: StageContext = { input, results, metadata }, as the unit of
\* work finds it when it is invoked.
Context(f) ==
    [input |-> f.input, results |-> f.results, metadata |-> f.metadata]

\* Mutant of Loop: when the loop reaches a unit of work to await, the units
\* of work of the later stages that declare no dependencies are started too.
RECURSIVE LoopEager(_, _, _, _)
LoopEager(f, m, i, sync) ==
    IF i > Len(f.executionPlan)
    THEN [frame |-> [f EXCEPT !.index = i], metrics |-> m, at |-> "finished"]
    ELSE LET stage == f.executionPlan[i] IN
         IF MustSkip(f.results, stage)
         THEN LET s == SkipStage(f, m, stage)
              IN LoopEager(s.frame, s.metrics, i + 1, sync)
         ELSE LET g == [f EXCEPT !.invoked = Append(@, stage.id),
                                 !.contexts = Append(@, Context(f))] IN
              IF stage.id \in sync.throwers
              THEN LET s == StageFailed(g, m, stage,
                                        ThrownBy(stage.id, sync.bare), ElapsedMs)
                   IN IF s.thrown # NoError
                      THEN [frame |-> [g EXCEPT !.index = i], metrics |-> m,
                            at |-> "thrown", thrown |-> s.thrown]
                      ELSE LoopEager(s.frame, s.metrics, i + 1, sync)
              ELSE [frame |->
                       [g EXCEPT
                           !.index = i,
                           !.invoked = @ \o
                              SelectSeq([k \in 1..(Len(f.executionPlan) - i) |->
                                            f.executionPlan[i + k].id],
                                        LAMBDA x :
                                           \E k \in (i + 1)..Len(f.executionPlan) :
                                              /\ f.executionPlan[k].id = x
                                              /\ f.executionPlan[k].dependencies = <<>>)],
                    metrics |-> m, at |-> "awaiting"]

\* The for loop over executionPlan from position i, up to the next await or
\* the end of the plan. `sync` says which units of work throw synchronously
\* when invoked during this stretch, and whether they throw the bare object.
\* Returns the locals, the collector, and where the run stands: "awaiting" the
\* unit of work at frame.index, "finished" with the loop, or "thrown" out of
\* run() by an error that left the catch block.
RECURSIVE Loop(_, _, _, _)
Loop(f, m, i, sync) ==
    IF i > Len(f.executionPlan)
    THEN [frame |-> [f EXCEPT !.index = i], metrics |-> m, at |-> "finished"]
    ELSE LET stage == f.executionPlan[i] IN
         IF MustSkip(f.results, stage)
         THEN LET s == SkipStage(f, m, stage)
              IN IF s.thrown # NoError
                 THEN [frame |-> [s.frame EXCEPT !.index = i],
                       metrics |-> s.metrics,
                       at |-> "thrown", thrown |-> s.thrown]
                 ELSE Loop(s.frame, s.metrics, i + 1, sync)
         ELSE LET g == [f EXCEPT !.invoked = Append(@, stage.id),
                                 !.contexts = Append(@, Context(f))] IN
              IF stage.id \in sync.throwers
              THEN LET s == StageFailed(g, m, stage,
                                        ThrownBy(stage.id, sync.bare), ElapsedMs)
                   IN IF s.thrown # NoError
                      THEN [frame |-> [s.frame EXCEPT !.index = i],
                            metrics |-> s.metrics,
                            at |-> "thrown", thrown |-> s.thrown]
                      ELSE Loop(s.frame, s.metrics, i + 1, sync)
              ELSE [frame |-> [g EXCEPT !.index = i], metrics |-> m,
                    at |-> "awaiting"]

\* The loop resumed after the await of the unit of work at frame.index, whose
\* outcome the try or the catch branch has handled as s.
Resume(s, i, sync) ==
    IF s.thrown # NoError
    THEN [frame |-> s.frame, metrics |-> s.metrics, at |-> "thrown",
          thrown |-> s.thrown]
    ELSE Loop(s.frame, s.metrics, i + 1, sync)

\* Mutant of Success: some() where the code has every().
SuccessIfSomeSucceeded(stageResults) ==
    \E k \in 1..Len(stageResults) : stageResults[k].status = "success"

\* stageResults.every((result) => result.status === "success")
Success(stageResults) ==
    \A k \in 1..Len(stageResults) : stageResults[k].status = "success"

\* The GovernanceRunResult built after the loop (timestamps left out).
RunResult(f) ==
    [runId |-> f.runId, stages |-> f.stageResults,
     success |-> Success(f.stageResults)]

\* Mutant of StoreHistory: only the latest RunResult is retained.
StoreHistoryLatestOnly(h, runResult) ==
    IF options.storeHistory THEN <<runResult>> ELSE h

\* Mutant of StoreHistory: the history is kept in the order the runs started.
StoreHistoryByStart(h, runResult) ==
    IF ~options.storeHistory THEN h
    ELSE LET before == SelectSeq(h, LAMBDA r : r.runId < runResult.runId)
             after == SelectSeq(h, LAMBDA r : r.runId > runResult.runId)
         IN before \o <<runResult>> \o after

\* if (this.storeHistory) this.history.push(runResult)
StoreHistory(h, runResult) ==
    IF options.storeHistory THEN Append(h, runResult) ELSE h

\* The ways the units of work of the stages `ids` may throw synchronously
\* during one stretch of the loop.
SyncChoices(ids) ==
    {[throwers |-> {}, bare |-> FALSE]}
        \cup [throwers : (SUBSET ids) \ {{}}, bare : BOOLEAN]

\* The stages of the plan after the one the run awaits.
Remaining(f) ==
    {f.executionPlan[k].id : k \in (f.index + 1)..Len(f.executionPlan)}

\* Where a stretch of the loop leaves the run: suspended at an await, resolved
\* with its RunResult, or rejected with the error thrown out of it.
Continue(id, r) ==
    /\ metrics' = r.metrics
    /\ CASE r.at = "awaiting" ->
            /\ frames' = (id :> r.frame) @@ frames
            /\ UNCHANGED <<history, settled>>
         [] r.at = "finished" ->
            /\ frames' = [k \in DOMAIN frames \ {id} |-> frames[k]]
            /\ history' = StoreHistory(history, RunResult(r.frame))
            /\ settled' = [outcome |-> "resolved", value |-> RunResult(r.frame),
                           frame |-> r.frame]
         [] r.at = "thrown" ->
            /\ frames' = [k \in DOMAIN frames \ {id} |-> frames[k]]
            /\ settled' = [outcome |-> "rejected", value |-> r.thrown,
                           runId |-> id]
            /\ UNCHANGED history

\* ----------------------------------------------------------------- actions

\* The calling code has made no call whose outcome it holds on to.
NoCall == [op |-> "none"]

Init ==
    /\ stages = <<>>
    /\ options \in [metricsCollector : BOOLEAN, storeHistory : BOOLEAN]
    /\ metrics = <<>>
    /\ history = <<>>
    /\ started = 0
    /\ frames = <<>>
    /\ settled = [outcome |-> "none"]
    /\ server = NoServer
    /\ pipeline = NoPipeline
    /\ enforcer = NoEnforcer
    /\ caller = NoCall

\* manager.addStage(stage), as the constructor calls it for each stage of
\* options.stages and as engine.registerStage(stage) forwards to it, before
\* the engine's first run. A duplicate id throws.
RegisterStage(id, deps) ==
    /\ started = 0
    /\ Has(stages, id) \/ SumDeps(stages) + Len(deps) <= MaxDependencies
    /\ stages' = AddStage(stages, [id |-> id, dependencies |-> deps])
    /\ UNCHANGED <<options, enforcer, server, pipeline,
                   metrics, history, started, frames, settled, caller>>

\* Mutant of Run: a plan error is caught and reported as a failed run, which
\* resolves and is kept in the history.
RunReportsPlanError(sync) ==
    /\ started < MaxRuns
    /\ started' = started + 1
    /\ UNCHANGED <<stages, options, enforcer, server, pipeline, caller>>
    /\ LET id == started + 1
           plan == GetExecutionPlan(stages)
           empty == [runId |-> id,
                     executionPlan |-> IF plan.error # "none" THEN <<>>
                                       ELSE [k \in 1..Len(plan.ordered) |->
                                                GetStage(stages, plan.ordered[k])],
                     index |-> 1, results |-> <<>>, stageResults |-> <<>>,
                     invoked |-> <<>>, input |-> Input, metadata |-> Metadata,
                     contexts |-> <<>>]
       IN IF plan.error # "none"
          THEN /\ settled' = [outcome |-> "resolved",
                              value |-> [runId |-> id, stages |-> <<>>,
                                         success |-> FALSE],
                              frame |-> empty]
               /\ history' = StoreHistory(history,
                                 [runId |-> id, stages |-> <<>>, success |-> FALSE])
               /\ UNCHANGED <<metrics, frames>>
          ELSE Continue(id, Loop(empty, metrics, 1, sync))

\* engine.run(input, metadata), up to its first await: the plan is computed
\* (a plan error rejects the run), then the loop runs to the first unit of
\* work that does not throw synchronously, or to the end.
Run(sync) ==
    /\ started < MaxRuns
    /\ started' = started + 1
    /\ UNCHANGED <<stages, options, enforcer, server, pipeline, caller>>
    /\ LET id == started + 1
           plan == GetExecutionPlan(stages)
       IN IF plan.error # "none"
          THEN /\ settled' = [outcome |-> "rejected", value |-> plan,
                              runId |-> id]
               /\ UNCHANGED <<metrics, history, frames>>
          ELSE Continue(id, Loop(
                  [runId |-> id,
                   executionPlan |-> [k \in 1..Len(plan.ordered) |->
                                         GetStage(stages, plan.ordered[k])],
                   index |-> 1, results |-> <<>>, stageResults |-> <<>>,
                   invoked |-> <<>>, input |-> Input, metadata |-> Metadata,
                   contexts |-> <<>>],
                  metrics, 1, sync))

\* The unit of work awaited by run `id` returns its output (or the promise it
\* returned resolves); the loop goes on.
StageReturns(id, sync) ==
    /\ id \in DOMAIN frames
    /\ UNCHANGED <<stages, options, enforcer, server, pipeline, started, caller>>
    /\ LET f == frames[id]
           stage == f.executionPlan[f.index]
           s == StageSucceeded(f, metrics, stage, Output(stage.id), ElapsedMs)
       IN Continue(id, Resume(s, f.index, sync))

\* The promise returned by the unit of work awaited by run `id` rejects, with
\* the stage's error or with the bare object.
StageRejects(id, bare, sync) ==
    /\ id \in DOMAIN frames
    /\ UNCHANGED <<stages, options, enforcer, server, pipeline, started, caller>>
    /\ LET f == frames[id]
           stage == f.executionPlan[f.index]
           s == StageFailed(f, metrics, stage, ThrownBy(stage.id, bare),
                            ElapsedMs)
       IN Continue(id, Resume(s, f.index, sync))

Next ==
    \/ \E id \in StageIds :
          \E deps \in DepLists(IF Has(stages, id) THEN 0
                               ELSE MaxDependencies - SumDeps(stages)) :
             RegisterStage(id, deps)
    \/ \E sync \in SyncChoices(RegisteredIds(stages)) : Run(sync)
    \/ \E id \in DOMAIN frames :
          \E sync \in SyncChoices(Remaining(frames[id])) : StageReturns(id, sync)
    \/ \E id \in DOMAIN frames, bare \in BOOLEAN :
          \E sync \in SyncChoices(Remaining(frames[id])) :
             StageRejects(id, bare, sync)

Spec == Init /\ [][Next]_vars

\* ------------------------------------------ a StageManager used on its own

\* Number of stages in the list a StageManager is constructed from.
MaxInitialStages == 2

\* undefined
Undefined == [undefined |-> TRUE]

\* The stages handed to a manager: an id and at most one declared dependency.
Stages == [id : StageIds, dependencies : DepLists(1)]

\* The lists a manager is constructed from (ids may repeat).
StageLists == UNION {[1..n -> Stages] : n \in 0..MaxInitialStages}

\* new Error(`Stage already registered: ${stage.id}`)
DuplicateError(id) == [error |-> "Stage already registered", stage |-> id]

\* What addStage(stage) throws on registry reg (NoError when it returns).
AddStageThrows(reg, stage) ==
    IF Has(reg, stage.id) THEN DuplicateError(stage.id) ELSE NoError

\* initialStages.forEach((stage) => this.addStage(stage)), from the k-th
\* stage on: the registry reached, and what was thrown on the way.
RECURSIVE AddEach(_, _, _)
AddEach(reg, initialStages, k) ==
    IF k > Len(initialStages) THEN [stages |-> reg, thrown |-> NoError]
    ELSE IF AddStageThrows(reg, initialStages[k]) # NoError
         THEN [stages |-> reg, thrown |-> AddStageThrows(reg, initialStages[k])]
         ELSE AddEach(AddStage(reg, initialStages[k]), initialStages, k + 1)

\* No manager has been constructed yet.
InitManager ==
    /\ stages = <<>>
    /\ options = [metricsCollector |-> FALSE, storeHistory |-> TRUE]
    /\ metrics = <<>>
    /\ history = <<>>
    /\ started = 0
    /\ frames = <<>>
    /\ settled = [outcome |-> "none"]
    /\ server = NoServer
    /\ pipeline = NoPipeline
    /\ enforcer = NoEnforcer
    /\ caller = [op |-> "none", constructed |-> FALSE, arg |-> Undefined,
                 thrown |-> NoError, result |-> Undefined, plan |-> Undefined,
                 again |-> FALSE]

\* new StageManager(initialStages): when an addStage throws, the constructor
\* throws and the caller gets no manager.
Construct(initialStages) ==
    /\ ~caller.constructed
    /\ LET r == AddEach(<<>>, initialStages, 1)
       IN /\ stages' = IF r.thrown = NoError THEN r.stages ELSE <<>>
          /\ caller' = [op |-> "new StageManager",
                        constructed |-> (r.thrown = NoError),
                        arg |-> initialStages, thrown |-> r.thrown,
                        result |-> Undefined, plan |-> Undefined,
                        again |-> FALSE]
    /\ UNCHANGED <<options, enforcer, server, pipeline,
                   metrics, history, started, frames, settled>>

\* manager.addStage(stage) called on the constructed manager. The caller
\* forgets the plan it held when the registration goes through.
AddStageCall(stage) ==
    /\ caller.constructed
    /\ Has(stages, stage.id)
          \/ SumDeps(stages) + Len(stage.dependencies) <= MaxDependencies
    /\ stages' = AddStage(stages, stage)
    /\ caller' = [caller EXCEPT
                     !.op = "addStage", !.arg = stage,
                     !.thrown = AddStageThrows(stages, stage),
                     !.result = Undefined,
                     !.plan = IF Has(stages, stage.id) THEN @ ELSE Undefined,
                     !.again = FALSE]
    /\ UNCHANGED <<options, enforcer, server, pipeline,
                   metrics, history, started, frames, settled>>

\* manager.getStage(id)
GetStageCall(id) ==
    /\ caller.constructed
    /\ caller' = [caller EXCEPT
                     !.op = "getStage", !.arg = id, !.thrown = NoError,
                     !.result = IF Has(stages, id) THEN GetStage(stages, id)
                                ELSE Undefined,
                     !.again = FALSE]
    /\ UNCHANGED <<stages, options, enforcer, server, pipeline,
                   metrics, history, started, frames, settled>>

\* Mutant of GetExecutionPlanCall: the sort takes the stages out of the
\* registry as it orders them.
GetExecutionPlanConsuming ==
    /\ caller.constructed
    /\ stages' = <<>>
    /\ caller' = [caller EXCEPT
                     !.op = "getExecutionPlan", !.arg = Undefined,
                     !.thrown = IF GetExecutionPlan(stages).error = "none"
                                THEN NoError ELSE GetExecutionPlan(stages),
                     !.result = GetExecutionPlan(stages),
                     !.plan = GetExecutionPlan(stages),
                     !.again = (caller.plan # Undefined)]
    /\ UNCHANGED <<options, enforcer, server, pipeline,
                   metrics, history, started, frames, settled>>

\* manager.getExecutionPlan(): it works on Maps of its own (inDegree, graph)
\* and writes nothing to this.stages. The caller keeps the outcome, and
\* whether it already held one for the same registrations.
GetExecutionPlanCall ==
    /\ caller.constructed
    /\ stages' = stages
    /\ caller' = [caller EXCEPT
                     !.op = "getExecutionPlan", !.arg = Undefined,
                     !.thrown = IF GetExecutionPlan(stages).error = "none"
                                THEN NoError ELSE GetExecutionPlan(stages),
                     !.result = GetExecutionPlan(stages),
                     !.plan = GetExecutionPlan(stages),
                     !.again = (caller.plan # Undefined)]
    /\ UNCHANGED <<options, enforcer, server, pipeline,
                   metrics, history, started, frames, settled>>

NextManager ==
    \/ \E initialStages \in StageLists : Construct(initialStages)
    \/ \E stage \in Stages : AddStageCall(stage)
    \/ \E id \in StageIds : GetStageCall(id)
    \/ GetExecutionPlanCall

SpecManager == InitManager /\ [][NextManager]_vars

\* ------------------------ the engine and the objects it shares with others

\* The lists of stages the engines are constructed with: none, one stage, two
\* stages of which the second depends on the first or not, and three stages
\* of which the third depends on the first.
SharedRegistries ==
    {<<>>,
     <<[id |-> "a", dependencies |-> <<>>]>>,
     <<[id |-> "a", dependencies |-> <<>>], [id |-> "b", dependencies |-> <<"a">>]>>,
     <<[id |-> "a", dependencies |-> <<>>], [id |-> "b", dependencies |-> <<>>]>>,
     <<[id |-> "a", dependencies |-> <<>>], [id |-> "b", dependencies |-> <<>>],
       [id |-> "c", dependencies |-> <<"a">>]>>}

\* The engine has been constructed with a list of stages, without a collector
\* and keeping its history; run() has not been called.
InitShared ==
    /\ stages \in SharedRegistries
    /\ options = [metricsCollector |-> FALSE, storeHistory |-> TRUE]
    /\ metrics = <<>>
    /\ history = <<>>
    /\ started = 0
    /\ frames = <<>>
    /\ settled = [outcome |-> "none"]
    /\ server = NoServer
    /\ pipeline = NoPipeline
    /\ enforcer = NoEnforcer
    /\ caller = [op |-> "none", list |-> Undefined]

\* run() called by code that awaits each run before it starts the next.
RunAwaited(sync) ==
    /\ frames = <<>>
    /\ Run(sync)

\* context.results[target].status = status, written by a unit of work: the
\* object in the results mapping is the one pushed onto stageResults.
Overwrite(f, target, status) ==
    [f EXCEPT
        !.results = [x \in DOMAIN f.results |->
                        IF x = target
                        THEN [f.results[x] EXCEPT !.status = status]
                        ELSE f.results[x]],
        !.stageResults = [k \in 1..Len(f.stageResults) |->
                             IF f.stageResults[k].stageId = target
                             THEN [f.stageResults[k] EXCEPT !.status = status]
                             ELSE f.stageResults[k]]]

\* The unit of work awaited by run `id` writes "success" over the status of
\* the result of an earlier stage, which it reaches through context.results,
\* and returns its output.
StageOverwritesAndReturns(id, target, sync) ==
    /\ id \in DOMAIN frames
    /\ target \in DOMAIN frames[id].results
    /\ frames[id].results[target].status # "success"
    /\ UNCHANGED <<stages, options, enforcer, server, pipeline, started, caller>>
    /\ LET f == Overwrite(frames[id], target, "success")
           stage == f.executionPlan[f.index]
           s == StageSucceeded(f, metrics, stage, Output(stage.id), ElapsedMs)
       IN Continue(id, Resume(s, f.index, sync))

\* Mutant of GetHistory: return this.history, the engine's own array.
GetHistoryAliased(h) ==
    [own |-> FALSE, items |-> [k \in 1..Len(h) |-> h[k].runId]]

\* getHistory(): [...this.history], an array of the caller's own whose items
\* are the RunResult objects of the history (each known by its runId).
GetHistory(h) ==
    [own |-> TRUE, items |-> [k \in 1..Len(h) |-> h[k].runId]]

\* The items of the array the caller holds: its own items, or those of the
\* engine's array when the caller's array is that very array.
ListItems(list) ==
    IF list.own THEN list.items ELSE [k \in 1..Len(history) |-> history[k].runId]

\* What the caller does to an array: pop(), reverse(), or push(array[0]).
ListChanges == {"pop", "reverse", "push"}

Changed(array, change) ==
    CASE change = "pop" -> SubSeq(array, 1, Len(array) - 1)
      [] change = "reverse" -> [k \in 1..Len(array) |-> array[Len(array) + 1 - k]]
      [] change = "push" -> Append(array, array[1])

\* engine.getHistory()
GetHistoryCall ==
    /\ caller' = [op |-> "getHistory", list |-> GetHistory(history)]
    /\ UNCHANGED <<stages, options, enforcer, server, pipeline,
                   metrics, history, started, frames, settled>>

\* The caller changes the array it got from getHistory().
CallerChangesList(change) ==
    /\ caller.list # Undefined
    /\ Len(ListItems(caller.list)) > 0
    /\ change = "push" => Len(ListItems(caller.list)) < MaxRuns
    /\ IF caller.list.own
       THEN /\ caller' = [op |-> change,
                          list |-> [caller.list EXCEPT
                                       !.items = Changed(@, change)]]
            /\ history' = history
       ELSE /\ caller' = [caller EXCEPT !.op = change]
            /\ history' = Changed(history, change)
    /\ UNCHANGED <<stages, options, enforcer, server, pipeline,
                   metrics, started, frames, settled>>

\* The RunResult objects the caller can reach: the items of its array, and
\* the object the latest run() resolved with.
HeldRunResults ==
    (IF caller.list = Undefined THEN {}
     ELSE {ListItems(caller.list)[k] : k \in 1..Len(ListItems(caller.list))})
       \cup (IF settled.outcome = "resolved" THEN {settled.value.runId} ELSE {})

\* The caller writes runResult.success = !runResult.success on a RunResult it
\* reached: the object is the one the engine pushed onto its history and
\* returned from run().
CallerChangesRunResult(ref) ==
    /\ ref \in HeldRunResults
    /\ history' = [k \in 1..Len(history) |->
                      IF history[k].runId = ref
                      THEN [history[k] EXCEPT !.success = ~@]
                      ELSE history[k]]
    /\ settled' = IF settled.outcome = "resolved" /\ settled.value.runId = ref
                  THEN [settled EXCEPT !.value.success = ~@]
                  ELSE settled
    /\ caller' = [caller EXCEPT !.op = "runResult.success ="]
    /\ UNCHANGED <<stages, options, enforcer, server, pipeline, metrics, started, frames>>

NextShared ==
    \/ \E sync \in SyncChoices(RegisteredIds(stages)) : RunAwaited(sync)
    \/ \E id \in DOMAIN frames :
          \E sync \in SyncChoices(Remaining(frames[id])) : StageReturns(id, sync)
    \/ \E id \in DOMAIN frames, bare \in BOOLEAN :
          \E sync \in SyncChoices(Remaining(frames[id])) :
             StageRejects(id, bare, sync)
    \/ \E id \in DOMAIN frames, target \in StageIds :
          \E sync \in SyncChoices(Remaining(frames[id])) :
             StageOverwritesAndReturns(id, target, sync)
    \/ GetHistoryCall
    \/ \E change \in ListChanges : CallerChangesList(change)
    \/ \E ref \in 1..MaxRuns : CallerChangesRunResult(ref)

SpecShared == InitShared /\ [][NextShared]_vars

\* ------------------------------- runs whose units of work always complete

\* The promise a run awaits settles: the unit of work returned or failed.
UnitOfWorkCompletes ==
    \E id \in DOMAIN frames :
       \E sync \in SyncChoices(Remaining(frames[id])) :
          \/ StageReturns(id, sync)
          \/ \E bare \in BOOLEAN : StageRejects(id, bare, sync)

NextLive ==
    \/ \E sync \in SyncChoices(RegisteredIds(stages)) : RunAwaited(sync)
    \/ \E id \in DOMAIN frames :
          \E sync \in SyncChoices(Remaining(frames[id])) : StageReturns(id, sync)
    \/ \E id \in DOMAIN frames, bare \in BOOLEAN :
          \E sync \in SyncChoices(Remaining(frames[id])) :
             StageRejects(id, bare, sync)

\* The engine over the registries of SharedRegistries (each has a plan), where
\* no awaited unit of work hangs: once its promise can settle, it does, and
\* the event loop resumes the run.
SpecLive == InitShared /\ [][NextLive]_vars /\ WF_vars(UnitOfWorkCompletes)

\* --------------------------------------- a MetricsCollector used on its own

\* Number of recordCounter and recordTiming calls made on the collector.
MaxCalls == 3

\* The metric names recorded under, the increments passed to recordCounter
\* (which may be called without one) and the durations passed to recordTiming.
MetricNames == {"runs", "stage.a"}
Increments == {2}
Durations == {10, 20}

\* The argument lists of recordCounter: (name) and (name, increment).
CounterArguments ==
    {<<name>> : name \in MetricNames}
        \cup {<<name, increment>> : name \in MetricNames, increment \in Increments}

\* The parameter `increment = 1` of recordCounter for an argument list.
Increment(arguments) == IF Len(arguments) < 2 THEN 1 ELSE arguments[2]

\* A new collector; the calling code has recorded nothing (log) and taken no
\* snapshot.
InitMetrics ==
    /\ stages = <<>>
    /\ options = [metricsCollector |-> TRUE, storeHistory |-> TRUE]
    /\ metrics = <<>>
    /\ history = <<>>
    /\ started = 0
    /\ frames = <<>>
    /\ settled = [outcome |-> "none"]
    /\ server = NoServer
    /\ pipeline = NoPipeline
    /\ enforcer = NoEnforcer
    /\ caller = [op |-> "none", log |-> <<>>, taken |-> FALSE, snapshot |-> <<>>]

\* collector.recordCounter(...arguments)
RecordCounterCall(arguments) ==
    /\ Len(caller.log) < MaxCalls
    /\ metrics' = RecordCounter(metrics, arguments[1], Increment(arguments))
    /\ caller' = [caller EXCEPT
                     !.op = "recordCounter",
                     !.log = Append(@, [op |-> "recordCounter",
                                        name |-> arguments[1],
                                        arguments |-> arguments])]
    /\ UNCHANGED <<stages, options, enforcer, server, pipeline,
                   history, started, frames, settled>>

\* collector.recordTiming(name, durationMs)
RecordTimingCall(name, durationMs) ==
    /\ Len(caller.log) < MaxCalls
    /\ metrics' = RecordTiming(metrics, name, durationMs)
    /\ caller' = [caller EXCEPT
                     !.op = "recordTiming",
                     !.log = Append(@, [op |-> "recordTiming", name |-> name,
                                        arguments |-> <<name, durationMs>>])]
    /\ UNCHANGED <<stages, options, enforcer, server, pipeline,
                   history, started, frames, settled>>

\* collector.getSnapshot(): the caller keeps the object returned.
GetSnapshotCall ==
    /\ caller' = [caller EXCEPT
                     !.op = "getSnapshot", !.taken = TRUE,
                     !.snapshot = GetSnapshot(metrics)]
    /\ UNCHANGED <<stages, options, enforcer, server, pipeline,
                   metrics, history, started, frames, settled>>

\* The samples in a values array of a snapshot: its own items, or those of
\* the collector's array when it is that very array.
ValuesOf(list) ==
    IF list.own THEN list.items
    ELSE IF list.operation \in DOMAIN metrics
               /\ metrics[list.operation].type = "timing"
         THEN metrics[list.operation].values
         ELSE list.items

\* A snapshot as the code holding it reads it.
Seen(snapshot) ==
    [name \in DOMAIN snapshot |->
        IF snapshot[name].type = "timing"
        THEN [snapshot[name] EXCEPT !.values = ValuesOf(@)]
        ELSE snapshot[name]]

\* snapshot[name].values.push(0), by the code holding the snapshot.
CallerPushesValue(name) ==
    /\ caller.taken
    /\ name \in DOMAIN caller.snapshot
    /\ caller.snapshot[name].type = "timing"
    /\ Len(ValuesOf(caller.snapshot[name].values)) <= MaxCalls
    /\ IF caller.snapshot[name].values.own
       THEN /\ caller' = [caller EXCEPT
                             !.op = "push",
                             !.snapshot[name].values.items = Append(@, 0)]
            /\ metrics' = metrics
       ELSE /\ caller' = [caller EXCEPT !.op = "push"]
            /\ metrics' = IF metrics[name].type = "timing"
                          THEN [metrics EXCEPT ![name].values = Append(@, 0)]
                          ELSE metrics
    /\ UNCHANGED <<stages, options, enforcer, server, pipeline,
                   history, started, frames, settled>>

NextMetrics ==
    \/ \E arguments \in CounterArguments : RecordCounterCall(arguments)
    \/ \E name \in MetricNames, durationMs \in Durations :
          RecordTimingCall(name, durationMs)
    \/ GetSnapshotCall
    \/ \E name \in MetricNames : CallerPushesValue(name)

SpecMetrics == InitMetrics /\ [][NextMetrics]_vars

\* ------------------------------------ registerStage() between the runs

\* The lists of stages the engines are constructed with before stages are
\* registered on them: none, stage a, stage b depending on a, and both.
LateRegistries ==
    {<<>>,
     <<[id |-> "a", dependencies |-> <<>>]>>,
     <<[id |-> "b", dependencies |-> <<"a">>]>>,
     <<[id |-> "a", dependencies |-> <<>>], [id |-> "b", dependencies |-> <<"a">>]>>}

\* No unit of work throws before it returns its promise (async functions).
NoSync == [throwers |-> {}, bare |-> FALSE]

\* The engine has been constructed; the calling code has registered no stage
\* on it (late; inFlight for those registered while a run was under way) and
\* started no run.
InitLate ==
    /\ stages \in LateRegistries
    /\ options = [metricsCollector |-> FALSE, storeHistory |-> TRUE]
    /\ metrics = <<>>
    /\ history = <<>>
    /\ started = 0
    /\ frames = <<>>
    /\ settled = [outcome |-> "none"]
    /\ server = NoServer
    /\ pipeline = NoPipeline
    /\ enforcer = NoEnforcer
    /\ caller = [op |-> "none", late |-> {}, inFlight |-> {},
                 thrown |-> NoError]

\* engine.registerStage(stage), at any moment after construction: it forwards
\* to manager.addStage(stage), which throws for an id already registered.
RegisterStageCall(stage) ==
    /\ stages' = AddStage(stages, stage)
    /\ caller' = [op |-> "registerStage",
                  late |-> IF Has(stages, stage.id) THEN caller.late
                           ELSE caller.late \cup {stage.id},
                  inFlight |-> IF Has(stages, stage.id) \/ frames = <<>>
                               THEN caller.inFlight
                               ELSE caller.inFlight \cup {stage.id},
                  thrown |-> AddStageThrows(stages, stage)]
    /\ UNCHANGED <<options, enforcer, server, pipeline,
                   metrics, history, started, frames, settled>>

NextLate ==
    \/ \E stage \in Stages : RegisterStageCall(stage)
    \/ RunAwaited(NoSync)
    \/ \E id \in DOMAIN frames : StageReturns(id, NoSync)
    \/ \E id \in DOMAIN frames : StageRejects(id, FALSE, NoSync)

SpecLate == InitLate /\ [][NextLate]_vars

\* --------------------------------------------------------- DashboardServer

\* Number of requests the client makes.
MaxRequests == 2

\* req.method and req.url of the requests made: the three routes, other
\* paths, and a route with a query string.
Methods == {"GET", "POST"}
Urls == {"/health", "/metrics", "/runs", "/", "/unknown", "/metrics?window=1"}

\* JSON.stringify(snapshot), known by the value the text parses back to: a
\* values array is written as its items.
JsonOfSnapshot(snapshot) ==
    [name \in DOMAIN snapshot |->
        IF snapshot[name].type = "timing"
        THEN [snapshot[name] EXCEPT !.values = @.items]
        ELSE snapshot[name]]

\* The getRuns accessor the server is constructed with: () =>
\* engine.getHistory(), whose array is written by JSON.stringify as the
\* RunResults of the history.
GetRuns(h) == [k \in 1..Len(h) |-> h[k]]

\* res.writeHead(400); res.end()
BadRequest == [statusCode |-> 400, contentType |-> "none", body |-> <<>>]

\* respondJson(res, payload, statusCode = 200)
RespondJson(payload, statusCode) ==
    [statusCode |-> statusCode, contentType |-> "application/json",
     body |-> payload]

\* The branches of handleRequest on req.url, given what getSnapshot() and
\* getRuns() return (as JSON).
Routed(url, snapshot, runs) ==
    IF url = "" THEN BadRequest
    ELSE IF url = "/health" THEN RespondJson([status |-> "ok"], 200)
    ELSE IF url = "/metrics" THEN RespondJson(snapshot, 200)
    ELSE IF url = "/runs" THEN RespondJson(runs, 200)
    ELSE RespondJson([error |-> "Not found"], 404)

\* Mutant of HandleRequest: the server answers with what the collector and
\* the accessor gave when it was constructed (nothing recorded, no run).
HandleRequestStale(req, m, h) ==
    [response |-> Routed(req.url, JsonOfSnapshot(GetSnapshot(<<>>)),
                         GetRuns(<<>>)),
     metrics |-> m]

\* Mutant of HandleRequest: the server counts the requests it serves in the
\* collector.
HandleRequestCounted(req, m, h) ==
    [response |-> Routed(req.url, JsonOfSnapshot(GetSnapshot(m)), GetRuns(h)),
     metrics |-> RecordCounter(m, "requests", 1)]

\* handleRequest(req, res) with the collector's Map m and the engine's
\* history h: the response written to res, and the Map afterwards (req.method
\* is not read; getSnapshot() and getHistory() write nothing).
HandleRequest(req, m, h) ==
    [response |-> Routed(req.url, JsonOfSnapshot(GetSnapshot(m)), GetRuns(h)),
     metrics |-> m]

\* The list of stages of the engine the dashboard shows.
DashboardRegistry == <<[id |-> "a", dependencies |-> <<>>]>>

\* An engine with a collector and a DashboardServer constructed on both; the
\* server is not started and the client has made no request.
InitDashboard ==
    /\ stages = DashboardRegistry
    /\ options = [metricsCollector |-> TRUE, storeHistory |-> TRUE]
    /\ metrics = <<>>
    /\ history = <<>>
    /\ started = 0
    /\ frames = <<>>
    /\ settled = [outcome |-> "none"]
    /\ server = NoServer
    /\ pipeline = NoPipeline
    /\ enforcer = NoEnforcer
    /\ caller = [op |-> "none", requests |-> 0,
                 request |-> [method |-> "none", url |-> "none"],
                 response |-> BadRequest,
                 atStart |-> [metrics |-> <<>>, history |-> <<>>]]

\* dashboard.start(port), on a server that is not listening. The calling code
\* notes what the collector and the history hold at that moment.
StartServer ==
    /\ server # "listening"
    /\ server' = "listening"
    /\ caller' = [caller EXCEPT
                     !.op = "start",
                     !.atStart = [metrics |-> metrics, history |-> history]]
    /\ UNCHANGED <<stages, options, enforcer, pipeline,
                   metrics, history, started, frames, settled>>

\* dashboard.stop(), on a listening server.
StopServer ==
    /\ server = "listening"
    /\ server' = "closed"
    /\ caller' = [caller EXCEPT !.op = "stop"]
    /\ UNCHANGED <<stages, options, enforcer, pipeline,
                   metrics, history, started, frames, settled>>

\* A client sends a request to the listening server and gets the response.
Request(method, url) ==
    /\ server = "listening"
    /\ caller.requests < MaxRequests
    /\ LET r == HandleRequest([method |-> method, url |-> url], metrics, history)
       IN /\ metrics' = r.metrics
          /\ caller' = [caller EXCEPT
                           !.op = "request", !.requests = @ + 1,
                           !.request = [method |-> method, url |-> url],
                           !.response = r.response]
    /\ UNCHANGED <<stages, options, enforcer, server, pipeline,
                   history, started, frames, settled>>

NextDashboard ==
    \/ StartServer
    \/ StopServer
    \/ \E method \in Methods, url \in Urls : Request(method, url)
    \/ RunAwaited(NoSync)
    \/ \E id \in DOMAIN frames : StageReturns(id, NoSync)
    \/ \E id \in DOMAIN frames : StageRejects(id, FALSE, NoSync)

SpecDashboard == InitDashboard /\ [][NextDashboard]_vars

\* ------------------------------------------------------ the layer pipeline

\* The configured layers (the last three of the list), in configured order.
ConfiguredLayers ==
    <<[id |-> "2", name |-> "DA-2"], [id |-> "1", name |-> "DA-1"],
      [id |-> "X", name |-> "DA-X"]>>

\* Texts are lists of words; " " is white space. The text a run starts from,
\* the empty string, and an absent reason.
InitialInput == <<"intent">>
EmptyText == <<>>
NoReason == <<"undefined">>

\* text.trim()
RECURSIVE TrimStart(_)
TrimStart(text) ==
    IF text # <<>> /\ Head(text) = " " THEN TrimStart(Tail(text)) ELSE text

RECURSIVE TrimEnd(_)
TrimEnd(text) ==
    IF text # <<>> /\ text[Len(text)] = " "
    THEN TrimEnd(SubSeq(text, 1, Len(text) - 1))
    ELSE text

Trim(text) == TrimEnd(TrimStart(text))

\* What the chat-completion endpoint may answer to the prompt of `layer` with
\* `input` as "Prior output": the stabilized text (the input with the layer's
\* mark), set in white space or not; an object with keys output and reason,
\* or with the key reason only, as JSON; or an error (HTTP status not ok).
Stabilized(layer, input) == Append(input, layer.name)

Replies(layer, input, includeReasons) ==
    {[kind |-> "error", status |-> 500]}
       \cup {[kind |-> "text", content |-> Stabilized(layer, input)]}
       \cup (IF includeReasons
             THEN {[kind |-> "json", hasOutput |-> TRUE,
                    output |-> <<" ">> \o Stabilized(layer, input) \o <<" ">>,
                    reason |-> <<"checked by", layer.name>>],
                   [kind |-> "json", hasOutput |-> FALSE, output |-> EmptyText,
                    reason |-> <<"checked by", layer.name>>]}
             ELSE {[kind |-> "text",
                    content |-> <<" ">> \o Stabilized(layer, input) \o <<" ">>]})

\* callXAI (defaultTransport in the SDK): throws when the response is not ok,
\* else returns message.content.trim().
CallXAI(reply) ==
    IF reply.kind = "error"
    THEN [threw |-> TRUE, error |-> <<"HTTP", "500">>, content |-> EmptyText]
    ELSE [threw |-> FALSE, error |-> EmptyText,
          content |-> IF reply.kind = "text" THEN Trim(reply.content)
                      ELSE <<"{}">>]

\* JSON.parse(response) and `parsed.output?.trim() || ''`, `parsed.reason ||
\* ''`: a text that is no JSON throws.
ParseReasons(layer, reply) ==
    IF reply.kind # "json"
    THEN [threw |-> TRUE,
          error |-> <<layer.name,
                      "returned non-JSON while includeReasons=true">>,
          output |-> EmptyText, reason |-> NoReason]
    ELSE [threw |-> FALSE, error |-> EmptyText,
          output |-> IF reply.hasOutput THEN Trim(reply.output) ELSE EmptyText,
          reason |-> reply.reason]

\* processLayer(layer, input, includeReasons) of DAXGovernanceCore, once the
\* endpoint has answered: what it returns or throws.
ProcessLayer(layer, includeReasons, reply) ==
    IF CallXAI(reply).threw
    THEN [threw |-> TRUE, error |-> <<"XAI API error:">> \o CallXAI(reply).error,
          output |-> EmptyText, reason |-> NoReason]
    ELSE IF includeReasons THEN ParseReasons(layer, reply)
    ELSE [threw |-> FALSE, error |-> EmptyText,
          output |-> Trim(CallXAI(reply).content), reason |-> NoReason]

\* The loop body of run() of the SDK's runner, once the transport has
\* answered.
RunnerLayer(layer, includeReasons, reply) ==
    IF CallXAI(reply).threw
    THEN [threw |-> TRUE, error |-> CallXAI(reply).error,
          output |-> EmptyText, reason |-> NoReason]
    ELSE IF includeReasons THEN ParseReasons(layer, reply)
    ELSE [threw |-> FALSE, error |-> EmptyText,
          output |-> CallXAI(reply).content, reason |-> NoReason]

\* The loop goes to the next layer and awaits its answer, or the run returns
\* {output: current, trace}.
NextLayer(p) ==
    IF p.index < Len(ConfiguredLayers)
    THEN [p EXCEPT !.index = @ + 1, !.received = Append(@, p.current)]
    ELSE [p EXCEPT !.at = "returned"]

\* The locals of a run of the pipeline as it awaits the answer for its first
\* layer. (received and failed are kept for the record: what each layer was
\* given as prior output, and the layers whose call threw.)
StartPipeline(impl, includeReasons) ==
    [at |-> "awaiting", impl |-> impl, includeReasons |-> includeReasons,
     index |-> 1, current |-> InitialInput, trace |-> <<>>,
     received |-> <<InitialInput>>, failed |-> {}, thrown |-> EmptyText]

\* Nothing of the engine, the collector or the dashboard is in use.
InitPipeline ==
    /\ stages = <<>>
    /\ options = [metricsCollector |-> FALSE, storeHistory |-> TRUE]
    /\ metrics = <<>>
    /\ history = <<>>
    /\ started = 0
    /\ frames = <<>>
    /\ settled = [outcome |-> "none"]
    /\ server = NoServer
    /\ pipeline = NoPipeline
    /\ enforcer = NoEnforcer
    /\ caller = NoCall

\* core.runGovernance({input, includeReasons}), up to its first await.
RunGovernance(includeReasons) ==
    /\ pipeline.at # "awaiting"
    /\ pipeline' = StartPipeline("DAXGovernanceCore", includeReasons)
    /\ UNCHANGED <<stages, options, enforcer, server, metrics, history, started, frames,
                   settled, caller>>

\* createDaxRunner({apiKey, includeReasons}).run(input), up to its first
\* await.
RunnerRun(includeReasons) ==
    /\ pipeline.at # "awaiting"
    /\ pipeline' = StartPipeline("createDaxRunner", includeReasons)
    /\ UNCHANGED <<stages, options, enforcer, server, metrics, history, started, frames,
                   settled, caller>>

\* Mutant of GovernanceLayerSettles: the error of any layer halts the run,
\* as that of layer X does.
GovernanceLayerSettlesHalting(reply) ==
    /\ pipeline.at = "awaiting"
    /\ pipeline.impl = "DAXGovernanceCore"
    /\ LET layer == ConfiguredLayers[pipeline.index]
           r == ProcessLayer(layer, pipeline.includeReasons, reply)
       IN pipeline' =
             IF ~r.threw
             THEN NextLayer([pipeline EXCEPT
                     !.current = r.output,
                     !.trace = Append(@, [layer |-> layer.name,
                                          output |-> r.output,
                                          reason |-> r.reason])])
             ELSE [pipeline EXCEPT
                     !.at = "thrown",
                     !.failed = @ \cup {layer.name},
                     !.thrown = <<"Governance halted by", layer.name>>
                                   \o r.error]
    /\ UNCHANGED <<stages, options, enforcer, server, metrics, history, started, frames,
                   settled, caller>>

\* The endpoint answers the layer awaited by runGovernance: the layer's
\* output becomes current and is traced; when processLayer throws, layer X
\* halts the run, and any other layer is traced with the error as its reason
\* and the loop goes on with current as it was.
GovernanceLayerSettles(reply) ==
    /\ pipeline.at = "awaiting"
    /\ pipeline.impl = "DAXGovernanceCore"
    /\ LET layer == ConfiguredLayers[pipeline.index]
           r == ProcessLayer(layer, pipeline.includeReasons, reply)
       IN pipeline' =
             IF ~r.threw
             THEN NextLayer([pipeline EXCEPT
                     !.current = r.output,
                     !.trace = Append(@, [layer |-> layer.name,
                                          output |-> r.output,
                                          reason |-> r.reason])])
             ELSE IF layer.id = "X"
             THEN [pipeline EXCEPT
                     !.at = "thrown",
                     !.failed = @ \cup {layer.name},
                     !.thrown = <<"Governance halted by", layer.name>>
                                   \o r.error]
             ELSE NextLayer([pipeline EXCEPT
                     !.failed = @ \cup {layer.name},
                     !.trace = Append(@, [layer |-> layer.name,
                                          output |-> pipeline.current,
                                          reason |-> <<"Error:">> \o r.error])])
    /\ UNCHANGED <<stages, options, enforcer, server, metrics, history, started, frames,
                   settled, caller>>

\* The transport answers the layer awaited by the runner's run(): the layer's
\* output becomes current and is traced; an error of the transport or a
\* reply that is no JSON rejects the run.
RunnerLayerSettles(reply) ==
    /\ pipeline.at = "awaiting"
    /\ pipeline.impl = "createDaxRunner"
    /\ LET layer == ConfiguredLayers[pipeline.index]
           r == RunnerLayer(layer, pipeline.includeReasons, reply)
       IN pipeline' =
             IF ~r.threw
             THEN NextLayer([pipeline EXCEPT
                     !.current = r.output,
                     !.trace = Append(@, [layer |-> layer.name,
                                          output |-> r.output,
                                          reason |-> r.reason])])
             ELSE [pipeline EXCEPT
                     !.at = "thrown",
                     !.failed = @ \cup {layer.name},
                     !.thrown = r.error]
    /\ UNCHANGED <<stages, options, enforcer, server, metrics, history, started, frames,
                   settled, caller>>

\* The answers the awaited layer may get.
AwaitedReplies ==
    IF pipeline.at = "awaiting"
    THEN Replies(ConfiguredLayers[pipeline.index], pipeline.current,
                 pipeline.includeReasons)
    ELSE {}

NextPipeline ==
    \/ \E includeReasons \in BOOLEAN : RunGovernance(includeReasons)
    \/ \E includeReasons \in BOOLEAN : RunnerRun(includeReasons)
    \/ \E reply \in AwaitedReplies : GovernanceLayerSettles(reply)
    \/ \E reply \in AwaitedReplies : RunnerLayerSettles(reply)

SpecPipeline == InitPipeline /\ [][NextPipeline]_vars

\* ------------------------------------ runs interleaving on one engine

\* An engine constructed with one of the lists of SharedRegistries, with the
\* repository's collector and keeping its history.
InitConcurrent ==
    /\ stages \in SharedRegistries
    /\ options = [metricsCollector |-> TRUE, storeHistory |-> TRUE]
    /\ metrics = <<>>
    /\ history = <<>>
    /\ started = 0
    /\ frames = <<>>
    /\ settled = [outcome |-> "none"]
    /\ server = NoServer
    /\ pipeline = NoPipeline
    /\ enforcer = NoEnforcer
    /\ caller = NoCall

\* run() is called whether or not earlier runs have settled; the runs under
\* way go on one at a time, each from the await it is suspended at to its
\* next await or its end.
NextConcurrent ==
    \/ \E sync \in SyncChoices(RegisteredIds(stages)) : Run(sync)
    \/ \E id \in DOMAIN frames :
          \E sync \in SyncChoices(Remaining(frames[id])) : StageReturns(id, sync)
    \/ \E id \in DOMAIN frames, bare \in BOOLEAN :
          \E sync \in SyncChoices(Remaining(frames[id])) :
             StageRejects(id, bare, sync)

SpecConcurrent == InitConcurrent /\ [][NextConcurrent]_vars

\* ------------------------------------------- a collector that throws

\* What a collector handed to the engine may be built to fail on: the
\* operations of recordCounter, and recordTiming.
ThrowingOperations ==
    {"stages.success", "stages.failed", "stages.skipped", "recordTiming"}

\* new GovernanceEngine({ metricsCollector, initialStages }) with a collector
\* that throws on some of its calls and records the others as the
\* repository's MetricsCollector does.
InitCollector ==
    /\ stages \in SharedRegistries
    /\ \E throwsOn \in (SUBSET ThrowingOperations) \ {{}} :
          options = [metricsCollector |-> TRUE, storeHistory |-> TRUE,
                     throwsOn |-> throwsOn]
    /\ metrics = <<>>
    /\ history = <<>>
    /\ started = 0
    /\ frames = <<>>
    /\ settled = [outcome |-> "none"]
    /\ server = NoServer
    /\ pipeline = NoPipeline
    /\ enforcer = NoEnforcer
    /\ caller = NoCall

NextCollector ==
    \/ \E sync \in SyncChoices(RegisteredIds(stages)) : Run(sync)
    \/ \E id \in DOMAIN frames :
          \E sync \in SyncChoices(Remaining(frames[id])) : StageReturns(id, sync)
    \/ \E id \in DOMAIN frames, bare \in BOOLEAN :
          \E sync \in SyncChoices(Remaining(frames[id])) :
             StageRejects(id, bare, sync)

SpecCollector == InitCollector /\ [][NextCollector]_vars

\* --------------------------------------- the plan of any list of stages

\* The orders in which stages of distinct ids can be listed.
IdOrders ==
    {ids \in UNION {[1..n -> StageIds] : n \in 0..Cardinality(StageIds)} :
        \A i \in 1..Len(ids), j \in 1..Len(ids) : i # j => ids[i] # ids[j]}

\* The dependencies arrays of at most MaxDependencies entries that name no
\* stage twice (one that does gets no plan).
PlanDepLists == {deps \in IdOrders : Len(deps) <= MaxDependencies}

\* The lists of stages a manager can be constructed with without an error:
\* distinct ids in any order, each stage with any of these dependencies arrays.
PlanRegistries ==
    UNION {{[k \in 1..Len(ids) |-> [id |-> ids[k], dependencies |-> deps[k]]] :
               deps \in [1..Len(ids) -> PlanDepLists]} :
           ids \in IdOrders}

\* new StageManager(initialStages) has returned.
InitPlan ==
    /\ stages \in PlanRegistries
    /\ options = [metricsCollector |-> FALSE, storeHistory |-> TRUE]
    /\ metrics = <<>>
    /\ history = <<>>
    /\ started = 0
    /\ frames = <<>>
    /\ settled = [outcome |-> "none"]
    /\ server = NoServer
    /\ pipeline = NoPipeline
    /\ enforcer = NoEnforcer
    /\ caller = [op |-> "new StageManager", constructed |-> TRUE,
                 arg |-> stages, thrown |-> NoError, result |-> Undefined,
                 plan |-> Undefined, again |-> FALSE]

NextPlan == GetExecutionPlanCall

SpecPlan == InitPlan /\ [][NextPlan]_vars

\* ----------------------------------------------------------- LoopEnforcer

\* Calls of enforceLoop made on the enforcer.
MaxEnforcements == 3

\* config.maxIterations, config.characterThreshold (0.7, as a fraction) and
\* the number of config.genericPatterns.
maxIterations == 3
characterThreshold == [numerator |-> 7, denominator |-> 10]
GenericPatternCount == 12

\* The keywords of config.technoKeywords, and of the list enableMysticalMode()
\* sets, that occur in the texts here ("quantum" is on both lists).
TechnoKeywords == {"protocol", "kernel", "quantum"}
MysticalKeywords == {"quantum", "nexus"}

\* A text is held as what the enforcer reads off it: the keywords it
\* includes, the length of text.split(/\s+/), and how many of the generic
\* patterns it includes. (Texts here are not empty and neither begin nor end
\* with white space.) The inputs: one with no keyword and no generic pattern
\* in seven words, one with a keyword and a generic pattern. The outputs: one
\* with no keyword in ten words, one of two keywords, and one of two words,
\* "quantum" among them.
LoopInputs ==
    {[present |-> {}, words |-> 7, patterns |-> 0],
     [present |-> {"kernel"}, words |-> 5, patterns |-> 1]}

LoopOutputs ==
    {[present |-> {}, words |-> 10, patterns |-> 0],
     [present |-> {"protocol", "kernel"}, words |-> 2, patterns |-> 0],
     [present |-> {"quantum"}, words |-> 2, patterns |-> 0]}

\* The layers enforceLoop is called for: (layerId, layerName).
LoopLayers == {[id |-> "13", name |-> "DA-13"], [id |-> "X", name |-> "DA-X"]}

\* a >= b for fractions with positive denominators.
AtLeast(a, b) == a.numerator * b.denominator >= b.numerator * a.denominator

\* calculateTechnoMysticalScore(text): (mysticalCount + technoCount) /
\* Math.max(words, 1), each keyword of each list counted once.
CalculateTechnoMysticalScore(e, text) ==
    [numerator |-> Cardinality(text.present \cap e.mysticalKeywords)
                     + Cardinality(text.present \cap TechnoKeywords),
     denominator |-> IF text.words > 1 THEN text.words ELSE 1]

\* detectGeneric(text): matches / genericPatterns.length
DetectGeneric(text) ==
    [numerator |-> text.patterns, denominator |-> GenericPatternCount]

\* analyzePattern(input)
AnalyzePattern(input) ==
    IF input.patterns > 0 THEN "GENERIC_REQUEST_PATTERN"
    ELSE "DIRECT_INTENT_PATTERN"

\* analyzeCharacter(output)
AnalyzeCharacter(e, text) ==
    LET mystical == Cardinality(text.present \cap e.mysticalKeywords)
        techno == Cardinality(text.present \cap TechnoKeywords)
    IN IF mystical > 0 /\ techno > 0 THEN "TECHNO_MYSTICAL"
       ELSE IF mystical > 0 THEN "MYSTICAL_ONLY"
       ELSE IF techno > 0 THEN "TECHNO_ONLY"
       ELSE "GENERIC"

\* assessCurrentState(input, output)
AssessCurrentState(e, input, output) ==
    IF AnalyzeCharacter(e, input) = "GENERIC"
          /\ AnalyzeCharacter(e, output) = "GENERIC"
    THEN "DEGRADED_STATE"
    ELSE IF AnalyzeCharacter(e, output) = "TECHNO_MYSTICAL"
    THEN "OPTIMAL_STATE"
    ELSE "TRANSITIONING_STATE"

\* performObservation(layerName, input, output): the fields of the text it
\* builds.
PerformObservation(e, layerName, input, output) ==
    [layer |-> layerName,
     inputPattern |-> AnalyzePattern(input),
     outputCharacter |-> AnalyzeCharacter(e, output),
     genericDetection |-> DetectGeneric(output),
     score |-> CalculateTechnoMysticalScore(e, output),
     currentState |-> AssessCurrentState(e, input, output)]

\* performSelfQuestion(layerName, observation, output)
PerformSelfQuestion(layerName, observation) ==
    [layer |-> layerName, observation |-> observation]

\* The number of words of layerInfusions[layerName] || "System analysis: ".
InfusionWords(layerName) ==
    CASE layerName = "DA-13" -> 7
      [] layerName = "DA-X" -> 5
      [] OTHER -> 2

\* infuseTechnoMysticalCharacter(layerName, output), technoElement being the
\* keyword Math.random() picks: the infusion is put before the output, and
\* "System protocol: <technoElement> validation complete." after it when the
\* score is below the threshold.
InfuseTechnoMysticalCharacter(e, layerName, output, technoElement) ==
    LET infused == [output EXCEPT !.words = @ + InfusionWords(layerName)]
    IN IF ~AtLeast(CalculateTechnoMysticalScore(e, infused), characterThreshold)
       THEN [infused EXCEPT !.words = @ + 5,
                            !.present = @ \cup {"protocol", technoElement}]
       ELSE infused

\* performReconciliation(layerName, selfQuestion, output)
PerformReconciliation(e, layerName, output, technoElement) ==
    IF \/ ~AtLeast(CalculateTechnoMysticalScore(e, output), characterThreshold)
       \/ ~AtLeast([numerator |-> 3, denominator |-> 10], DetectGeneric(output))
    THEN InfuseTechnoMysticalCharacter(e, layerName, output, technoElement)
    ELSE output

\* meetsCharacterThreshold(text)
MeetsCharacterThreshold(e, text) ==
    /\ AtLeast(CalculateTechnoMysticalScore(e, text), characterThreshold)
    /\ AtLeast([numerator |-> 2, denominator |-> 10], DetectGeneric(text))

\* The LoopState getOrCreateLoopState makes for a layer that has none.
NewState ==
    [observation |-> Undefined, selfQuestion |-> Undefined,
     reconciliation |-> Undefined, iterationCount |-> 0,
     lastCharacterCheck |-> ""]

\* getOrCreateLoopState(layerId): the Map afterwards; the state returned is
\* the object the Map holds under layerId.
GetOrCreateLoopState(loopStates, layerId) ==
    IF layerId \in DOMAIN loopStates THEN loopStates
    ELSE (layerId :> NewState) @@ loopStates

\* Mutant of EnforceLoop: the loop goes on until the text meets the
\* threshold or the pass itself is the maxIterations-th of this call.
RECURSIVE EnforceLoopPerCall(_, _, _, _, _, _, _)
EnforceLoopPerCall(e, layerId, layerName, input, currentOutput, picks, pass) ==
    LET states == GetOrCreateLoopState(e.loopStates, layerId)
        observation == PerformObservation(e, layerName, input, currentOutput)
        selfQuestion == PerformSelfQuestion(layerName, observation)
        reconciliation == PerformReconciliation(e, layerName, currentOutput,
                                                picks[pass])
        state == [states[layerId] EXCEPT
                     !.observation = observation,
                     !.selfQuestion = selfQuestion,
                     !.reconciliation = reconciliation,
                     !.iterationCount = @ + 1]
        after == [e EXCEPT !.loopStates = [states EXCEPT ![layerId] = state]]
    IN IF pass < maxIterations /\ ~MeetsCharacterThreshold(e, reconciliation)
       THEN EnforceLoopPerCall(after, layerId, layerName, input, reconciliation,
                               picks, pass + 1)
       ELSE [enforcer |-> after, output |-> reconciliation, passes |-> pass]

\* enforceLoop(layerId, layerName, input, currentOutput), this being the
\* pass-th pass of the call; picks[k] is the keyword Math.random() picks in
\* the k-th pass (here one of two of the list). The function awaits nothing: the passes of a call run in one
\* stretch. Returns the enforcer afterwards, the text returned and the number
\* of passes made.
RECURSIVE EnforceLoop(_, _, _, _, _, _, _)
EnforceLoop(e, layerId, layerName, input, currentOutput, picks, pass) ==
    LET states == GetOrCreateLoopState(e.loopStates, layerId)
        observation == PerformObservation(e, layerName, input, currentOutput)
        selfQuestion == PerformSelfQuestion(layerName, observation)
        reconciliation == PerformReconciliation(e, layerName, currentOutput,
                                                picks[pass])
        state == [states[layerId] EXCEPT
                     !.observation = observation,
                     !.selfQuestion = selfQuestion,
                     !.reconciliation = reconciliation,
                     !.iterationCount = @ + 1]
        after == [e EXCEPT !.loopStates = [states EXCEPT ![layerId] = state]]
    IN IF /\ state.iterationCount < maxIterations
          /\ ~MeetsCharacterThreshold(e, reconciliation)
       THEN EnforceLoop(after, layerId, layerName, input, reconciliation,
                        picks, pass + 1)
       ELSE [enforcer |-> after, output |-> reconciliation, passes |-> pass]

\* new LoopEnforcer(): mystical mode off, no loop state.
InitEnforcer ==
    /\ stages = <<>>
    /\ options = [metricsCollector |-> FALSE, storeHistory |-> TRUE]
    /\ metrics = <<>>
    /\ history = <<>>
    /\ started = 0
    /\ frames = <<>>
    /\ settled = [outcome |-> "none"]
    /\ server = NoServer
    /\ pipeline = NoPipeline
    /\ enforcer = [constructed |-> TRUE, mysticalKeywords |-> {},
                   loopStates |-> <<>>]
    /\ caller = [op |-> "none", calls |-> 0, layerId |-> "", passes |-> 0,
                 result |-> Undefined, resetAt |-> <<>>]

\* await enforcer.enforceLoop(layer.id, layer.name, input, currentOutput)
EnforceLoopCall(layer, input, currentOutput, picks) ==
    /\ caller.calls < MaxEnforcements
    /\ LET r == EnforceLoop(enforcer, layer.id, layer.name, input,
                            currentOutput, picks, 1)
       IN /\ enforcer' = r.enforcer
          /\ caller' = [op |-> "enforceLoop", calls |-> caller.calls + 1,
                        layerId |-> layer.id, passes |-> r.passes,
                        result |-> r.output, resetAt |-> caller.resetAt]
    /\ UNCHANGED <<stages, options, metrics, history, started, frames, settled,
                   server, pipeline>>

\* enforcer.resetLoopState(layerId): this.loopStates.delete(layerId). The
\* caller notes the iterationCount getLoopState(layerId) showed before.
ResetLoopStateCall(layerId) ==
    /\ enforcer' = [enforcer EXCEPT
                       !.loopStates = [id \in DOMAIN @ \ {layerId} |-> @[id]]]
    /\ caller' = [caller EXCEPT
                     !.op = "resetLoopState", !.layerId = layerId,
                     !.passes = 0, !.result = Undefined,
                     !.resetAt =
                        IF layerId \in DOMAIN enforcer.loopStates
                        THEN (layerId :>
                                 enforcer.loopStates[layerId].iterationCount)
                                @@ caller.resetAt
                        ELSE caller.resetAt]
    /\ UNCHANGED <<stages, options, metrics, history, started, frames, settled,
                   server, pipeline>>

\* enforcer.enableMysticalMode()
EnableMysticalMode ==
    /\ enforcer' = [enforcer EXCEPT !.mysticalKeywords = MysticalKeywords]
    /\ caller' = [caller EXCEPT !.op = "enableMysticalMode", !.layerId = "",
                                !.passes = 0, !.result = Undefined]
    /\ UNCHANGED <<stages, options, metrics, history, started, frames, settled,
                   server, pipeline>>

\* enforcer.disableMysticalMode()
DisableMysticalMode ==
    /\ enforcer' = [enforcer EXCEPT !.mysticalKeywords = {}]
    /\ caller' = [caller EXCEPT !.op = "disableMysticalMode", !.layerId = "",
                                !.passes = 0, !.result = Undefined]
    /\ UNCHANGED <<stages, options, metrics, history, started, frames, settled,
                   server, pipeline>>

NextEnforcer ==
    \/ \E layer \in LoopLayers, input \in LoopInputs,
          currentOutput \in LoopOutputs,
          picks \in [1..maxIterations -> {"kernel", "quantum"}] :
             EnforceLoopCall(layer, input, currentOutput, picks)
    \/ \E layer \in LoopLayers : ResetLoopStateCall(layer.id)
    \/ EnableMysticalMode
    \/ DisableMysticalMode

SpecEnforcer == InitEnforcer /\ [][NextEnforcer]_vars

\* ------------------------------------------------- notions the claims use

\* The ids stage `id` declares as dependencies in registry reg.
DeclaredDependencies(reg, id) ==
    IF Has(reg, id)
    THEN {GetStage(reg, id).dependencies[k] :
             k \in 1..Len(GetStage(reg, id).dependencies)}
    ELSE {}

RECURSIVE DependencyClosure(_, _, _)
DependencyClosure(reg, ids, n) ==
    IF n = 0 THEN ids
    ELSE DependencyClosure(reg,
            ids \cup UNION {DeclaredDependencies(reg, x) : x \in ids}, n - 1)

\* Everything stage `id` depends on, directly or through other stages.
TransitiveDependencies(reg, id) ==
    DependencyClosure(reg, DeclaredDependencies(reg, id), Len(reg))

AllDependenciesRegistered(reg) ==
    \A i \in 1..Len(reg) : DeclaredDependencies(reg, reg[i].id) \subseteq RegisteredIds(reg)

\* Some stage depends on itself, directly or through other stages.
HasCycle(reg) ==
    \E i \in 1..Len(reg) : reg[i].id \in TransitiveDependencies(reg, reg[i].id)

\* Position of id in a list of ids (0 when it is not in it).
Position(ordered, id) ==
    IF \E k \in 1..Len(ordered) : ordered[k] = id
    THEN CHOOSE k \in 1..Len(ordered) : ordered[k] = id
    ELSE 0

\* ordered lists every stage of reg exactly once, each after its dependencies.
IsDependencyOrder(reg, ordered) ==
    /\ Len(ordered) = Len(reg)
    /\ {ordered[k] : k \in 1..Len(ordered)} = RegisteredIds(reg)
    /\ \A i \in 1..Len(reg) : \A d \in DeclaredDependencies(reg, reg[i].id) :
          /\ Position(ordered, d) > 0
          /\ Position(ordered, d) < Position(ordered, reg[i].id)

CycleError == [error |-> "Stage dependency cycle detected"]

\* The engine has been run on the registered stages and the run was rejected
\* with `error`.
RunRejectedWith(error) ==
    settled.outcome = "rejected" /\ settled.value = error

\* -------------------------------------------------------------- the claims

\* C1: for every registry in which each declared dependency is registered and
\* the dependencies have no cycle, getExecutionPlan() returns a list holding
\* every registered stage exactly once, each stage after all its dependencies.
C1_PlanOrdersEveryStage ==
    (started > 0 /\ AllDependenciesRegistered(stages) /\ ~HasCycle(stages))
        => /\ GetExecutionPlan(stages).error = "none"
           /\ IsDependencyOrder(stages, GetExecutionPlan(stages).ordered)

\* C8 as stated: whenever the registered stages contain a dependency cycle,
\* getExecutionPlan() fails with the cycle error.
C8_CycleAlwaysCycleError ==
    (started > 0 /\ HasCycle(stages)) => RunRejectedWith(CycleError)

\* C8 amended: whenever the registered stages contain a dependency cycle,
\* getExecutionPlan() fails and returns no plan; the error is the cycle error
\* when every declared dependency is registered, and the missing-dependency
\* error otherwise.
C8_CycleNeverPlanned ==
    HasCycle(stages) =>
        /\ GetExecutionPlan(stages).error # "none"
        /\ AllDependenciesRegistered(stages)
              => GetExecutionPlan(stages) = CycleError
        /\ ~AllDependenciesRegistered(stages)
              => GetExecutionPlan(stages).error = "depends on missing stage"
        /\ started > 0 => RunRejectedWith(GetExecutionPlan(stages))

\* A run on a registry with a cycle (all dependencies registered) was rejected
\* with the cycle error.
C8_Witness ==
    /\ HasCycle(stages) /\ AllDependenciesRegistered(stages)
    /\ RunRejectedWith(CycleError)

\* C9: getExecutionPlan() raises the cycle error only when the registered
\* stages really contain a dependency cycle.
C9_CycleErrorOnlyOnCycle ==
    RunRejectedWith(CycleError) => HasCycle(stages)

\* C10: if some registered stage declares a dependency id that is not
\* registered, getExecutionPlan() returns no plan and fails with an error that
\* names a registered stage and an unregistered id that stage declares.
C10_MissingDependencyNamed ==
    ~AllDependenciesRegistered(stages) =>
        LET plan == GetExecutionPlan(stages) IN
        /\ plan.error = "depends on missing stage"
        /\ Has(stages, plan.stage)
        /\ plan.dependency \in DeclaredDependencies(stages, plan.stage)
        /\ ~Has(stages, plan.dependency)
        /\ started > 0 => RunRejectedWith(plan)

\* A run on a registry with an unregistered dependency was rejected with the
\* error naming the dependent stage and the missing id.
C10_Witness ==
    /\ ~AllDependenciesRegistered(stages)
    /\ settled.outcome = "rejected"
    /\ settled.value.error = "depends on missing stage"
    /\ settled.value.dependency \notin RegisteredIds(stages)
    /\ Len(stages) > 1

\* The locals of the runs under way and of the latest run that resolved.
ObservedFrames ==
    {frames[id] : id \in DOMAIN frames}
        \cup (IF settled.outcome = "resolved" THEN {settled.frame} ELSE {})

\* The stage of the run's plan that result r is the result of.
StageOf(f, r) ==
    f.executionPlan[CHOOSE k \in 1..Len(f.executionPlan) :
                        f.executionPlan[k].id = r.stageId]

Ids(seq) == {seq[k] : k \in 1..Len(seq)}

\* Some declared dependency of `stage` has a recorded result that is not a
\* success.
DependencyNotSucceeded(f, stage) ==
    \E k \in 1..Len(stage.dependencies) :
        /\ stage.dependencies[k] \in DOMAIN f.results
        /\ f.results[stage.dependencies[k]].status \in {"failed", "skipped"}

RECURSIVE CountStatus(_, _)
CountStatus(stageResults, status) ==
    IF stageResults = <<>> THEN 0
    ELSE (IF Head(stageResults).status = status THEN 1 ELSE 0)
            + CountStatus(Tail(stageResults), status)

RECURSIVE CountInHistory(_, _)
CountInHistory(h, status) ==
    IF h = <<>> THEN 0
    ELSE CountStatus(Head(h).stages, status) + CountInHistory(Tail(h), status)

RECURSIVE CountInFrames(_, _)
CountInFrames(ids, status) ==
    IF ids = {} THEN 0
    ELSE LET id == CHOOSE x \in ids : TRUE
         IN CountStatus(frames[id].stageResults, status)
               + CountInFrames(ids \ {id}, status)

\* StageResults with `status` produced so far, over the runs that resolved
\* (the engine keeping its history) and the runs under way.
Produced(status) == CountInHistory(history, status) + CountInFrames(DOMAIN frames, status)

\* The value of counter `name` in the collector (0 when it was never
\* recorded); -1 when the entry is no counter.
CounterValue(name) ==
    IF name \notin DOMAIN metrics THEN 0
    ELSE IF metrics[name].type = "counter" THEN metrics[name].value ELSE -1

BothOptions == options.metricsCollector /\ options.storeHistory

\* The engine records metrics and keeps its history, and every run so far has
\* resolved or is under way: the history and the runs under way hold every
\* StageResult produced.
Accountable ==
    /\ BothOptions
    /\ started = Len(history) + Cardinality(DOMAIN frames)

\* C2: a stage one of whose declared dependencies has a recorded result that
\* is not a success is not invoked and is recorded as skipped, with durationMs
\* 0 and the fixed reason; every other stage is never recorded as skipped; and
\* stages.skipped counts the skipped results one by one.
C2_SkipOnDependencyNotSucceeded ==
    /\ \A f \in ObservedFrames : \A k \in 1..Len(f.stageResults) :
          LET r == f.stageResults[k] IN
          IF DependencyNotSucceeded(f, StageOf(f, r))
          THEN /\ r = [stageId |-> r.stageId, status |-> "skipped",
                       durationMs |-> 0,
                       skippedReason |-> "Dependency failed or skipped"]
               /\ r.stageId \notin Ids(f.invoked)
          ELSE r.status # "skipped"
    /\ Accountable => CounterValue("stages.skipped") = Produced("skipped")

\* A run resolved in which a stage was skipped because the stage it depends on
\* had itself been skipped.
C2_Witness ==
    /\ settled.outcome = "resolved"
    /\ Accountable
    /\ \E k \in 1..Len(settled.value.stages) :
          LET r == settled.value.stages[k] IN
          /\ r.status = "skipped"
          /\ \E d \in Ids(StageOf(settled.frame, r).dependencies) :
                settled.frame.results[d].status = "skipped"
    /\ CounterValue("stages.skipped") >= 2

\* The text the engine is to record for what the unit of work of stage `id`
\* throws: the message "boom" of a's Error, the string "7" of the others' 7.
ExpectedErrorText(id) == IF id = "a" THEN "boom" ELSE "7"

\* Timing samples recorded under stage.<id>.duration.
TimingSamples(id) ==
    IF DurationKey(id) \in DOMAIN metrics /\ metrics[DurationKey(id)].type = "timing"
    THEN Len(metrics[DurationKey(id)].values) ELSE 0

RECURSIVE CountExecuted(_, _)
CountExecuted(stageResults, id) ==
    IF stageResults = <<>> THEN 0
    ELSE (IF Head(stageResults).stageId = id /\ Head(stageResults).status # "skipped"
          THEN 1 ELSE 0) + CountExecuted(Tail(stageResults), id)

RECURSIVE ExecutedInHistory(_, _)
ExecutedInHistory(h, id) ==
    IF h = <<>> THEN 0
    ELSE CountExecuted(Head(h).stages, id) + ExecutedInHistory(Tail(h), id)

RECURSIVE ExecutedInFrames(_, _)
ExecutedInFrames(ids, id) ==
    IF ids = {} THEN 0
    ELSE LET x == CHOOSE y \in ids : TRUE
         IN CountExecuted(frames[x].stageResults, id) + ExecutedInFrames(ids \ {x}, id)

\* C3: a unit of work that throws or rejects leaves a failed result holding
\* the error's text; stages.failed counts it and a timing sample is recorded
\* under stage.<id>.duration; the run goes on to every remaining stage and
\* resolves: a run is rejected only when the plan cannot be computed.
C3_FailureIsRecordedNotThrown ==
    /\ \A f \in ObservedFrames : \A k \in 1..Len(f.stageResults) :
          LET r == f.stageResults[k] IN
          r.status = "failed" =>
             /\ r.errors = <<ExpectedErrorText(r.stageId)>>
             /\ r.stageId \in Ids(f.invoked)
    /\ Accountable =>
          /\ CounterValue("stages.failed") = Produced("failed")
          /\ \A id \in StageIds :
                TimingSamples(id) = ExecutedInHistory(history, id)
                                      + ExecutedInFrames(DOMAIN frames, id)
    /\ settled.outcome = "rejected" => GetExecutionPlan(stages).error # "none"
    /\ settled.outcome = "resolved" =>
          Len(settled.value.stages) = Len(settled.frame.executionPlan)
    /\ (started > 0 /\ GetExecutionPlan(stages).error = "none") =>
          \/ settled.outcome = "resolved"
          \/ frames # <<>>

\* C4: when the execution plan cannot be computed, the run() step rejects with
\* the plan's error and changes nothing else: no run is left under way (no
\* unit of work invoked, no StageResult), nothing is appended to the history
\* and nothing is recorded in the collector.
C4_PlanErrorRejectsWithoutEffect ==
    [][(started' = started + 1 /\ GetExecutionPlan(stages).error # "none")
          => /\ settled' = [outcome |-> "rejected",
                            value |-> GetExecutionPlan(stages),
                            runId |-> started']
             /\ history' = history
             /\ metrics' = metrics
             /\ frames' = frames]_vars

\* A second run was rejected with the cycle error of a stage that depends on
\* itself; history and collector are still empty.
C4_Witness ==
    /\ settled.outcome = "rejected"
    /\ settled.runId = 2
    /\ settled.value = CycleError
    /\ \E i \in 1..Len(stages) : stages[i].id \in DeclaredDependencies(stages, stages[i].id)
    /\ history = <<>> /\ metrics = <<>> /\ frames = <<>>

\* The results of RunResult `value` that are not a success.
NotSucceeded(value) ==
    {k \in 1..Len(value.stages) : value.stages[k].status \in {"failed", "skipped"}}

\* C5: the success flag of every RunResult (returned, or kept in the history)
\* is true exactly when none of its StageResults is failed or skipped; a run
\* with zero registered stages returns success = true and no StageResult.
C5_SuccessIffEveryStageSucceeded ==
    /\ settled.outcome = "resolved" =>
          /\ settled.value.success = (NotSucceeded(settled.value) = {})
          /\ stages = <<>> =>
                settled.value.success /\ settled.value.stages = <<>>
    /\ \A n \in 1..Len(history) :
          history[n].success = (NotSucceeded(history[n]) = {})

\* A run returned success = false although two of its three stages succeeded.
C5_Witness ==
    /\ settled.outcome = "resolved"
    /\ settled.value.success = FALSE
    /\ Len(settled.value.stages) = 3
    /\ Cardinality(NotSucceeded(settled.value)) = 1

\* C6: a run that resolves returns exactly one StageResult per registered
\* stage, in the order of the execution plan; and in no run is a unit of work
\* invoked twice.
C6_OneResultPerStageInPlanOrder ==
    /\ settled.outcome = "resolved" =>
          /\ Len(settled.value.stages) = Len(stages)
          /\ {settled.value.stages[k].stageId : k \in 1..Len(settled.value.stages)}
                = RegisteredIds(stages)
          /\ [k \in 1..Len(settled.value.stages) |-> settled.value.stages[k].stageId]
                = [k \in 1..Len(settled.frame.executionPlan) |->
                      settled.frame.executionPlan[k].id]
    /\ \A f \in ObservedFrames :
          /\ Cardinality(Ids(f.invoked)) = Len(f.invoked)
          /\ Cardinality({f.stageResults[k].stageId : k \in 1..Len(f.stageResults)})
                = Len(f.stageResults)

\* A run over three stages resolved with a failed, a skipped and a succeeded
\* stage, two units of work invoked once each.
C6_Witness ==
    /\ settled.outcome = "resolved"
    /\ Len(settled.value.stages) = 3
    /\ {settled.value.stages[k].status : k \in 1..3} = {"failed", "skipped", "success"}
    /\ Len(settled.frame.invoked) = 2

\* C7: in every run, a stage's unit of work is invoked exactly when all the
\* stages it depends on, directly or transitively, have status success; a
\* stage that is not invoked is recorded as skipped, so every stage depending
\* directly or transitively on a failed stage is skipped.
C7_InvokedIffAllDependenciesSucceeded ==
    \A f \in ObservedFrames :
       /\ \A k \in 1..Len(f.stageResults) :
             LET r == f.stageResults[k]
                 upstream == TransitiveDependencies(f.executionPlan, r.stageId)
             IN /\ (r.stageId \in Ids(f.invoked))
                      = (\A d \in upstream : /\ d \in DOMAIN f.results
                                             /\ f.results[d].status = "success")
                /\ r.stageId \notin Ids(f.invoked) => r.status = "skipped"
                /\ (\E d \in upstream : /\ d \in DOMAIN f.results
                                        /\ f.results[d].status = "failed")
                      => r.status = "skipped"
       /\ \A id \in Ids(f.invoked) :
             \A d \in TransitiveDependencies(f.executionPlan, id) :
                d \in DOMAIN f.results /\ f.results[d].status = "success"

\* A run resolved in which a failed, b (depending on a) was skipped, and c,
\* which declares only b, was skipped too without being invoked.
C7_Witness ==
    /\ settled.outcome = "resolved"
    /\ Len(settled.value.stages) = 3
    /\ settled.frame.results["a"].status = "failed"
    /\ settled.frame.results["b"].status = "skipped"
    /\ settled.frame.results["c"].status = "skipped"
    /\ DeclaredDependencies(settled.frame.executionPlan, "c") = {"b"}
    /\ settled.frame.invoked = <<"a">>

\* The first id that comes a second time in a list of stages ("" when none
\* does), looking from the k-th stage on.
RECURSIVE FirstRepeatedId(_, _)
FirstRepeatedId(list, k) ==
    IF k > Len(list) THEN ""
    ELSE IF \E j \in 1..(k - 1) : list[j].id = list[k].id THEN list[k].id
         ELSE FirstRepeatedId(list, k + 1)

\* C11: registering a stage under an id that is already registered fails with
\* the duplicate-id error and leaves the registry as it was: getStage and the
\* plan still give the stage registered first; a list with a repeated id makes
\* the construction fail with the duplicate-id error, leaving no manager.
C11_DuplicateIdRejected ==
    [][/\ (caller'.op = "addStage" /\ Has(stages, caller'.arg.id)) =>
             /\ caller'.thrown = DuplicateError(caller'.arg.id)
             /\ stages' = stages
             /\ GetStage(stages', caller'.arg.id) = GetStage(stages, caller'.arg.id)
             /\ GetExecutionPlan(stages') = GetExecutionPlan(stages)
       /\ (caller'.op = "addStage" /\ ~Has(stages, caller'.arg.id)) =>
             /\ caller'.thrown = NoError
             /\ stages' = Append(stages, caller'.arg)
       /\ (caller'.op = "new StageManager"
              /\ FirstRepeatedId(caller'.arg, 1) # "") =>
             /\ caller'.thrown = DuplicateError(FirstRepeatedId(caller'.arg, 1))
             /\ ~caller'.constructed]_vars

\* The manager refused a stage whose dependencies differ from those of the
\* stage registered under the same id.
C11_Witness ==
    /\ caller.op = "addStage"
    /\ caller.thrown = DuplicateError(caller.arg.id)
    /\ GetStage(stages, caller.arg.id) # caller.arg
    /\ Len(stages) = 2

C13_PlanFollowsRegistrationOrder ==
    started > 0 =>
       /\ GetExecutionPlan(stages).error = "none" =>
             \A i, j \in 1..Len(stages) :
                (i < j /\ stages[i].dependencies = <<>>
                       /\ stages[j].dependencies = <<>>)
                   => Position(GetExecutionPlan(stages).ordered, stages[i].id)
                         < Position(GetExecutionPlan(stages).ordered, stages[j].id)
       /\ (/\ RegisteredIds(stages) = {"a", "b", "c"}
           /\ GetStage(stages, "a").dependencies = <<>>
           /\ GetStage(stages, "b").dependencies = <<"a">>
           /\ GetStage(stages, "c").dependencies = <<"b">>)
             => GetExecutionPlan(stages) = [error |-> "none",
                                            ordered |-> <<"a", "b", "c">>]

\* C14: a unit of work that completes normally leaves a success result holding
\* the output it returned; stages.success counts the success results one by
\* one; and after a single run whose n stages all succeeded, stages.success is
\* a counter with value n and every stage.<id>.duration is a timing entry
\* with one sample.
C14_SuccessIsRecordedCountedAndTimed ==
    /\ \A f \in ObservedFrames : \A k \in 1..Len(f.stageResults) :
          LET r == f.stageResults[k] IN
          r.status = "success" =>
             /\ r = [stageId |-> r.stageId, status |-> "success",
                     output |-> Output(r.stageId), durationMs |-> ElapsedMs]
             /\ r.stageId \in Ids(f.invoked)
    /\ Accountable => CounterValue("stages.success") = Produced("success")
    /\ (/\ options.metricsCollector
        /\ started = 1
        /\ settled.outcome = "resolved"
        /\ settled.value.success) =>
          /\ CounterValue("stages.success") = Len(stages)
          /\ \A id \in RegisteredIds(stages) :
                /\ DurationKey(id) \in DOMAIN metrics
                /\ metrics[DurationKey(id)]
                      = [type |-> "timing", values |-> <<ElapsedMs>>]
          /\ DOMAIN metrics \subseteq
                {"stages.success"} \cup {DurationKey(id) : id \in RegisteredIds(stages)}

\* A single run of three stages, the third depending on the first, resolved
\* with success, the collector holding stages.success = 3.
C14_Witness ==
    /\ options.metricsCollector
    /\ started = 1
    /\ settled.outcome = "resolved"
    /\ settled.value.success
    /\ Len(settled.value.stages) = 3
    /\ metrics["stages.success"] = [type |-> "counter", value |-> 3]
    /\ \E k \in 1..3 : settled.frame.executionPlan[k].dependencies # <<>>

\* C17: with history retention on, every run that resolves appends its
\* RunResult to the end of the history and no other step changes the history
\* (nothing is evicted, entries stay in order of completion); with retention
\* off the history stays empty, while the collector still records the run.
C17_HistoryGrowsByOnePerCompletedRun ==
    [][/\ IF settled' # settled /\ settled'.outcome = "resolved"
             /\ options.storeHistory
          THEN history' = Append(history, settled'.value)
          ELSE history' = history
       /\ ~options.storeHistory => history' = <<>>
       /\ (settled' # settled /\ settled'.outcome = "resolved"
             /\ options.metricsCollector /\ started' = 1) =>
             CounterValue("stages.success")' + CounterValue("stages.failed")'
                + CounterValue("stages.skipped")' = Len(settled'.value.stages)]_vars

\* Two runs resolved, the second to start being the first to complete, and
\* the history lists them in order of completion.
C17_Witness ==
    /\ options.storeHistory
    /\ Len(history) = 2
    /\ history[1].runId = 2
    /\ history[2].runId = 1
    /\ Len(history[1].stages) > 0

\* Retention is off, a run of two stages resolved, the history is empty and
\* the collector has counted the stages.
C17_RetentionOff ==
    /\ ~options.storeHistory
    /\ options.metricsCollector
    /\ settled.outcome = "resolved"
    /\ Len(settled.value.stages) = 2
    /\ history = <<>>
    /\ metrics # <<>>

\* The ids of the stages of a plan, in plan order.
PlanIds(f) == [k \in 1..Len(f.executionPlan) |-> f.executionPlan[k].id]

\* C20: in a run, one unit of work at most is under way: the one the run
\* awaits. Every stage before it in the plan has its result recorded, no
\* stage after it has been invoked or has a result, and the units of work
\* were invoked in plan order.
C20_OneUnitOfWorkAtATime ==
    /\ \A id \in DOMAIN frames :
          LET f == frames[id] IN
          /\ f.index \in 1..Len(f.executionPlan)
          /\ Ids(f.invoked) \ DOMAIN f.results = {f.executionPlan[f.index].id}
          /\ DOMAIN f.results = {f.executionPlan[k].id : k \in 1..(f.index - 1)}
          /\ [k \in 1..Len(f.stageResults) |-> f.stageResults[k].stageId]
                = SubSeq(PlanIds(f), 1, f.index - 1)
    /\ \A f \in ObservedFrames :
          \A i, j \in 1..Len(f.invoked) :
             i < j => Position(PlanIds(f), f.invoked[i])
                         < Position(PlanIds(f), f.invoked[j])

\* A run of three stages none of which depends on another awaits the second:
\* the first has its result, the third has not been invoked.
C20_Witness ==
    \E id \in DOMAIN frames :
       LET f == frames[id] IN
       /\ Len(f.executionPlan) = 3
       /\ \A k \in 1..3 : f.executionPlan[k].dependencies = <<>>
       /\ f.index = 2
       /\ f.invoked = <<f.executionPlan[1].id, f.executionPlan[2].id>>
       /\ DOMAIN f.results = {f.executionPlan[1].id}

\* C15: the context a unit of work is invoked with holds the input and the
\* metadata the run was called with, and a results mapping with a result for
\* exactly the stages before it in the plan; each dependency the stage
\* declares has a result there, with status success.
C15_ContextAtInvocation ==
    \A f \in ObservedFrames :
       /\ Len(f.contexts) = Len(f.invoked)
       /\ \A n \in 1..Len(f.invoked) :
             LET context == f.contexts[n]
                 at == Position(PlanIds(f), f.invoked[n])
             IN /\ at > 0
                /\ context.input = Input
                /\ context.metadata = Metadata
                /\ DOMAIN context.results = {PlanIds(f)[k] : k \in 1..(at - 1)}
                /\ \A d \in Ids(f.executionPlan[at].dependencies) :
                      /\ d \in DOMAIN context.results
                      /\ context.results[d].status = "success"

\* The third stage of a run was invoked with a context holding the run's
\* input, the success of the stage it depends on, and the failure of the
\* other stage.
C15_Witness ==
    \E f \in ObservedFrames :
       /\ Len(f.executionPlan) = 3
       /\ Len(f.invoked) = 3
       /\ f.executionPlan[3].dependencies # <<>>
       /\ f.contexts[3].input = Input
       /\ {f.contexts[3].results[x].status : x \in DOMAIN f.contexts[3].results}
             = {"success", "failed"}

\* C16: once the result of a stage is recorded in a run, it does not change
\* for the rest of the run, neither in the results mapping nor in the list
\* the RunResult is built from.
C16_RecordedResultsNeverChange ==
    [][/\ \A id \in DOMAIN frames \cap DOMAIN frames' :
             /\ SubSeq(frames'[id].stageResults, 1, Len(frames[id].stageResults))
                   = frames[id].stageResults
             /\ \A x \in DOMAIN frames[id].results :
                   /\ x \in DOMAIN frames'[id].results
                   /\ frames'[id].results[x] = frames[id].results[x]
       /\ \A id \in DOMAIN frames \ DOMAIN frames' :
             settled'.outcome = "resolved" =>
                SubSeq(settled'.value.stages, 1, Len(frames[id].stageResults))
                   = frames[id].stageResults]_vars

\* C18: what the caller does to an array it got from getHistory() leaves the
\* engine's history, and so what getHistory() returns later, unchanged; and a
\* run that completes adds nothing to an array returned before.
C18_GetHistoryReturnsACopy ==
    [][/\ (caller'.op \in ListChanges /\ started' = started /\ frames' = frames) =>
             /\ history' = history
             /\ GetHistory(history') = GetHistory(history)
       /\ ((started' # started \/ frames' # frames) /\ caller.list # Undefined) =>
             ListItems(caller.list)' = ListItems(caller.list)
       /\ (caller'.op = "getHistory" /\ started' = started /\ frames' = frames) =>
             ListItems(caller.list)' = [k \in 1..Len(history) |-> history[k].runId]]_vars

\* The caller got the history after the first run, a second run completed,
\* and the caller then reversed its array: the array has one item, the
\* history two.
C18_Witness ==
    /\ caller.op = "reverse"
    /\ caller.list.own
    /\ Len(caller.list.items) = 1
    /\ Len(history) = 2
    /\ history[1].runId = 1
    /\ history[2].runId = 2

\* C19: nothing the caller does with what getHistory() or run() returned
\* changes the engine's history: every step that is not a step of a run
\* leaves the retained RunResults as they were.
C19_CallerCannotChangeHistory ==
    [][(started' = started /\ frames' = frames) => history' = history]_vars

\* C21: a run whose plan is computed and whose units of work all complete
\* (return or fail) eventually resolves with its RunResult.
C21_RunEventuallyResolves ==
    \A n \in 1..MaxRuns :
       (started = n) ~> (settled.outcome = "resolved" /\ settled.value.runId = n)

\* The calls of the log made with operation op on `name`, in order.
RECURSIVE CallsOn(_, _, _)
CallsOn(log, op, name) ==
    IF log = <<>> THEN <<>>
    ELSE IF Head(log).op = op /\ Head(log).name = name
         THEN <<Head(log).arguments>> \o CallsOn(Tail(log), op, name)
         ELSE CallsOn(Tail(log), op, name)

\* The sum of the increments of recordCounter calls, an absent one being 1.
RECURSIVE SumOfIncrements(_)
SumOfIncrements(calls) ==
    IF calls = <<>> THEN 0
    ELSE (IF Len(Head(calls)) = 1 THEN 1 ELSE Head(calls)[2])
            + SumOfIncrements(Tail(calls))

\* The durations of recordTiming calls, in order.
Samples(calls) == [k \in 1..Len(calls) |-> calls[k][2]]

\* C22: after recordCounter calls on a name never used for timings, the entry
\* of a snapshot for that name is {type: counter, value} with value the sum of
\* the increments recorded, an absent increment counting 1.
C22_CounterIsSumOfIncrements ==
    caller.op = "getSnapshot" =>
       \A name \in MetricNames :
          (/\ CallsOn(caller.log, "recordCounter", name) # <<>>
           /\ CallsOn(caller.log, "recordTiming", name) = <<>>)
             => /\ name \in DOMAIN caller.snapshot
                /\ caller.snapshot[name] =
                      [type |-> "counter",
                       value |-> SumOfIncrements(
                                    CallsOn(caller.log, "recordCounter", name))]

\* C22: recordCounter("runs") then recordCounter("runs", 2) gives value 3.
C22_Witness ==
    /\ caller.op = "getSnapshot"
    /\ CallsOn(caller.log, "recordCounter", "runs") = <<<<"runs">>, <<"runs", 2>>>>
    /\ CallsOn(caller.log, "recordTiming", "runs") = <<>>
    /\ caller.snapshot["runs"] = [type |-> "counter", value |-> 3]

\* C23: after recordTiming calls on a name never used for counters, the entry
\* of a snapshot for that name has type timing, as count the number of samples
\* recorded, as values the samples in recording order and as averageMs their
\* arithmetic mean.
C23_TimingKeepsSamplesInOrder ==
    caller.op = "getSnapshot" =>
       \A name \in MetricNames :
          (/\ CallsOn(caller.log, "recordTiming", name) # <<>>
           /\ CallsOn(caller.log, "recordCounter", name) = <<>>)
             => LET samples == Samples(CallsOn(caller.log, "recordTiming", name))
                    entry == Seen(caller.snapshot)[name]
                IN /\ name \in DOMAIN caller.snapshot
                   /\ entry.type = "timing"
                   /\ entry.count = Len(samples)
                   /\ entry.values = samples
                   /\ entry.averageMs.numerator * Len(samples)
                         = Total(samples) * entry.averageMs.denominator

\* C23: two samples 10 and 20 give count 2, averageMs 15, values [10, 20].
C23_Witness ==
    /\ caller.op = "getSnapshot"
    /\ CallsOn(caller.log, "recordTiming", "stage.a")
          = <<<<"stage.a", 10>>, <<"stage.a", 20>>>>
    /\ CallsOn(caller.log, "recordCounter", "stage.a") = <<>>
    /\ Seen(caller.snapshot)["stage.a"]
          = [type |-> "timing", count |-> 2,
             averageMs |-> [numerator |-> 15, denominator |-> 1],
             values |-> <<10, 20>>]

\* C24: recordCounter and recordTiming calls leave a snapshot taken earlier as
\* it was, and a push onto a values list of a snapshot leaves the collector's
\* metrics, and so the snapshots taken later, as they were.
C24_SnapshotIsPointInTimeCopy ==
    [][/\ (caller.taken /\ caller'.op \in {"recordCounter", "recordTiming"})
             => Seen(caller.snapshot)' = Seen(caller.snapshot)
       /\ caller'.op = "push"
             => /\ metrics' = metrics
                /\ Seen(GetSnapshot(metrics))' = Seen(GetSnapshot(metrics))]_vars

\* C24: a sample was recorded under a name after the snapshot was taken, and
\* the caller then pushed 0 onto the values list the snapshot has for it.
C24_Witness ==
    /\ caller.op = "push"
    /\ \E name \in DOMAIN caller.snapshot :
          /\ caller.snapshot[name].type = "timing"
          /\ metrics[name].type = "timing"
          /\ Len(metrics[name].values) > caller.snapshot[name].count
          /\ metrics[name].values[Len(metrics[name].values)] # 0
          /\ Len(ValuesOf(caller.snapshot[name].values))
                > caller.snapshot[name].count
          /\ ValuesOf(caller.snapshot[name].values)[
                Len(ValuesOf(caller.snapshot[name].values))] = 0

\* What the first call of the log on `name` was ("none" without any).
RECURSIVE FirstRecordedAs(_, _)
FirstRecordedAs(log, name) ==
    IF log = <<>> THEN "none"
    ELSE IF Head(log).name = name THEN Head(log).op
         ELSE FirstRecordedAs(Tail(log), name)

\* C25: a key first recorded as a timing is a timing holding all the samples
\* recorded under it, and a key first recorded as a counter is a counter
\* holding the sum of the increments recorded under it.
C25_KeyKeepsItsShape ==
    \A name \in MetricNames :
       /\ FirstRecordedAs(caller.log, name) = "recordTiming"
             => /\ metrics[name].type = "timing"
                /\ metrics[name].values
                      = Samples(CallsOn(caller.log, "recordTiming", name))
       /\ FirstRecordedAs(caller.log, name) = "recordCounter"
             => /\ metrics[name].type = "counter"
                /\ metrics[name].value
                      = SumOfIncrements(CallsOn(caller.log, "recordCounter", name))

\* C26: when stages were registered after construction and the registry has
\* every dependency registered and no cycle, the next run() is not rejected,
\* and its plan has every stage registered late, each stage after the stages
\* it depends on.
C26_LateStageIsRunByNextRun ==
    [][(/\ started' = started + 1
        /\ caller.late # {}
        /\ AllDependenciesRegistered(stages)
        /\ ~HasCycle(stages))
          => /\ ~(settled'.outcome = "rejected" /\ settled'.runId = started')
             /\ LET f == IF started' \in DOMAIN frames' THEN frames'[started']
                         ELSE settled'.frame
                IN /\ caller.late \subseteq Ids(PlanIds(f))
                   /\ IsDependencyOrder(stages, PlanIds(f))]_vars

\* C27: a request for /health is answered 200 with {status: "ok"}, one for
\* /metrics with what getSnapshot() gives at the time of the request, one for
\* /runs with what getRuns() gives at that time, and any other with 404 and a
\* JSON error body.
C27_RoutesAnswerWithCurrentState ==
    [][caller'.requests = caller.requests + 1
          => LET url == caller'.request.url
                 response == caller'.response
             IN /\ response.contentType = "application/json"
                /\ url = "/health"
                      => /\ response.statusCode = 200
                         /\ response.body = [status |-> "ok"]
                /\ url = "/metrics"
                      => /\ response.statusCode = 200
                         /\ response.body = JsonOfSnapshot(GetSnapshot(metrics))
                /\ url = "/runs"
                      => /\ response.statusCode = 200
                         /\ response.body = history
                /\ url \notin {"/health", "/metrics", "/runs"}
                      => /\ response.statusCode = 404
                         /\ response.body = [error |-> "Not found"]]_vars

\* C27: /metrics or /runs was answered with a state that differs from the
\* state at the time the server was started.
C27_Witness ==
    /\ caller.op = "request"
    /\ \/ /\ caller.request.url = "/metrics"
          /\ caller.response.body # JsonOfSnapshot(GetSnapshot(caller.atStart.metrics))
          /\ caller.response.body = JsonOfSnapshot(GetSnapshot(metrics))
       \/ /\ caller.request.url = "/runs"
          /\ caller.response.body # caller.atStart.history
          /\ caller.response.body = history

\* C28: serving a request, whatever its path and method, changes neither the
\* collector's metrics nor the engine's history (nor its registry and runs),
\* and leaves the server's only field, the listening socket, as it is.
C28_RequestsChangeNothing ==
    [][caller'.requests = caller.requests + 1
          => /\ metrics' = metrics
             /\ history' = history
             /\ server' = server
             /\ stages' = stages
             /\ frames' = frames
             /\ started' = started]_vars

\* C28: requests of both methods were served, one of them for /metrics after
\* the collector had recorded a run's metrics, and the history holds a run.
C28_Witness ==
    /\ caller.requests = MaxRequests
    /\ caller.request.method = "POST"
    /\ caller.request.url = "/metrics"
    /\ caller.response.body # <<>>
    /\ history # <<>>

\* C29: when a run of the layer pipeline has returned its output, every
\* configured layer has completed without an error, in configured order, each
\* given the output of the layer before it (the first the run's input), and
\* the output returned is the last layer's; the reasons are in the trace only.
C29_OutputOnlyAfterEveryLayerSucceeded ==
    pipeline.at = "returned" =>
       /\ pipeline.failed = {}
       /\ Len(pipeline.trace) = Len(ConfiguredLayers)
       /\ \A k \in 1..Len(ConfiguredLayers) :
             /\ pipeline.trace[k].layer = ConfiguredLayers[k].name
             /\ pipeline.received[k]
                   = IF k = 1 THEN InitialInput ELSE pipeline.trace[k - 1].output
       /\ pipeline.current = pipeline.trace[Len(ConfiguredLayers)].output

\* A dependencies array with each id kept where it is listed first.
RECURSIVE ListedOnce(_)
ListedOnce(deps) ==
    IF deps = <<>> THEN <<>>
    ELSE SetAdd(ListedOnce(SubSeq(deps, 1, Len(deps) - 1)), deps[Len(deps)])

\* The registry with every dependencies array listing each id once.
WithDependenciesListedOnce(reg) ==
    [i \in 1..Len(reg) |->
        [reg[i] EXCEPT !.dependencies = ListedOnce(@)]]

\* Some stage lists a registered id more than once among its dependencies.
ListsADependencyTwice(reg) ==
    \E i \in 1..Len(reg) :
       \E j, k \in 1..Len(reg[i].dependencies) :
          /\ j # k
          /\ reg[i].dependencies[j] = reg[i].dependencies[k]
          /\ Has(reg, reg[i].dependencies[j])

\* C30: when a stage lists a registered id more than once among its
\* dependencies, getExecutionPlan() gives what it gives with the id listed
\* once: where that is a plan, the same plan, with the stage after the
\* dependency.
C30_RepeatedDependencyCountsOnce ==
    (started > 0 /\ ListsADependencyTwice(stages))
        => LET once == GetExecutionPlan(WithDependenciesListedOnce(stages))
           IN /\ GetExecutionPlan(stages) = once
              /\ once.error = "none"
                    => IsDependencyOrder(stages, GetExecutionPlan(stages).ordered)

\* The keys the engine writes: the three status counters, and the duration
\* key of each stage.
EngineCounterKeys == {"stages.success", "stages.failed", "stages.skipped"}
EngineTimingKeys == {DurationKey(id) : id \in StageIds}

\* Every run started has resolved: none is under way, none was rejected.
AllRunsCompleted == frames = <<>> /\ started = Len(history)

\* The StageResults of all the runs of the history.
RECURSIVE StageResultsIn(_)
StageResultsIn(h) ==
    IF h = <<>> THEN 0 ELSE Len(Head(h).stages) + StageResultsIn(Tail(h))

\* C31: once the runs have completed, each status counter equals the number
\* of StageResults with that status over all runs (their sum is the number of
\* StageResults); stage.<id>.duration has one sample per run in which the
\* stage's work was invoked, none for a run that skipped it; and every key
\* the engine wrote is a counter key holding a counter or a duration key
\* holding a timing, no key being both.
C31_MetricsAccountForEveryStageResult ==
    /\ EngineCounterKeys \cap EngineTimingKeys = {}
    /\ DOMAIN metrics \subseteq EngineCounterKeys \cup EngineTimingKeys
    /\ \A key \in DOMAIN metrics :
          metrics[key].type = IF key \in EngineCounterKeys THEN "counter"
                              ELSE "timing"
    /\ AllRunsCompleted =>
          /\ \A status \in {"success", "failed", "skipped"} :
                CounterValue("stages." \o status) = CountInHistory(history, status)
          /\ CounterValue("stages.success") + CounterValue("stages.failed")
                + CounterValue("stages.skipped") = StageResultsIn(history)
          /\ \A id \in StageIds :
                TimingSamples(id) = ExecutedInHistory(history, id)

\* C31: two runs have completed; results of all three statuses were produced
\* and some stage was skipped in one run and invoked in the other.
C31_Witness ==
    /\ AllRunsCompleted
    /\ started = 2
    /\ \A status \in {"success", "failed", "skipped"} :
          CountInHistory(history, status) > 0
    /\ \E id \in StageIds :
          /\ ExecutedInHistory(history, id) = 1
          /\ TimingSamples(id) = 1
          /\ \E k \in 1..2 : \E j \in 1..Len(history[k].stages) :
                /\ history[k].stages[j].stageId = id
                /\ history[k].stages[j].status = "skipped"

\* C32: each run, under way or resolved, has its own results: one StageResult
\* per stage reached, in plan order, the results mapping holding the same
\* objects; a stage is skipped exactly when a result of that same run for one
\* of its dependencies is not a success; each context holds results of that
\* run only; and each RunResult has one StageResult per registered stage.
C32_RunsKeepTheirOwnResults ==
    /\ \A f \in ObservedFrames :
          /\ Len(f.stageResults) <= Len(f.executionPlan)
          /\ DOMAIN f.results = {f.stageResults[k].stageId :
                                    k \in 1..Len(f.stageResults)}
          /\ \A k \in 1..Len(f.stageResults) :
                /\ f.stageResults[k].stageId = f.executionPlan[k].id
                /\ f.results[f.executionPlan[k].id] = f.stageResults[k]
                /\ f.stageResults[k].status = "skipped"
                      <=> DependencyNotSucceeded(f, f.executionPlan[k])
          /\ \A j \in 1..Len(f.contexts) :
                \A x \in DOMAIN f.contexts[j].results :
                   /\ x \in DOMAIN f.results
                   /\ f.contexts[j].results[x] = f.results[x]
    /\ \A k \in 1..Len(history) :
          /\ Len(history[k].stages) = Len(stages)
          /\ \A j \in 1..Len(stages) :
                \E i \in 1..Len(stages) : history[k].stages[j].stageId = stages[i].id
    /\ settled.outcome = "resolved"
          => settled.value.stages = settled.frame.stageResults

\* C32: run 2 was started while run 1 was under way and has completed with
\* stage a failed and its dependent c skipped, while run 1, in which a
\* succeeded, has invoked c.
C32_Witness ==
    /\ 1 \in DOMAIN frames
    /\ "a" \in DOMAIN frames[1].results
    /\ frames[1].results["a"].status = "success"
    /\ "c" \in Ids(frames[1].invoked)
    /\ Len(history) = 1
    /\ history[1].runId = 2
    /\ \E j, k \in 1..Len(history[1].stages) :
          /\ history[1].stages[j].stageId = "a"
          /\ history[1].stages[j].status = "failed"
          /\ history[1].stages[k].stageId = "c"
          /\ history[1].stages[k].status = "skipped"

\* The runIds of the history, in its order.
HistoryRunIds == [k \in 1..Len(history) |-> history[k].runId]

\* C33: however the runs interleave, each run that resolves puts its RunResult
\* at the end of the history, and nothing else changes the history (so it is
\* in order of completion); and once all runs have completed the history has
\* exactly one entry per run and each status counter is the sum of the runs'
\* counts of results with that status.
C33_NoUpdateIsLost ==
    [][/\ IF settled' # settled /\ settled'.outcome = "resolved"
          THEN /\ history' = Append(history, settled'.value)
               /\ \A k \in 1..Len(history) :
                     history[k].runId # settled'.value.runId
          ELSE history' = history
       /\ AllRunsCompleted'
             => /\ Ids(HistoryRunIds)' = 1..started'
                /\ Len(history') = started'
                /\ \A status \in {"success", "failed", "skipped"} :
                      CounterValue("stages." \o status)'
                         = CountInHistory(history', status)]_vars

\* C33: two runs interleaved and have completed, the one started second
\* first; both produced results.
C33_Witness ==
    /\ AllRunsCompleted
    /\ HistoryRunIds = <<2, 1>>
    /\ Len(history[1].stages) > 1
    /\ CounterValue("stages.success") > 0
    /\ CounterValue("stages.failed") > 0

\* The stage ids of a list of StageResults, in its order.
ResultIds(stageResults) ==
    [k \in 1..Len(stageResults) |-> stageResults[k].stageId]

RegisteredBeforeItsDependency(reg) ==
    \E i \in 1..Len(reg), j \in 1..Len(reg) :
       /\ i < j
       /\ reg[j].id \in Ids(reg[i].dependencies)

ResultsOf(f, id) ==
    SelectSeq(f.stageResults, LAMBDA r : r.stageId = id)

Greatest(numbers) == CHOOSE n \in numbers : \A other \in numbers : other <= n

\* The length of the longest dependency chain of stage id in a registry with
\* every dependency registered and no cycle.
RECURSIVE ChainLength(_, _)
ChainLength(reg, id) ==
    LET deps == GetStage(reg, id).dependencies
    IN IF deps = <<>> THEN 0
       ELSE 1 + Greatest({ChainLength(reg, deps[k]) : k \in 1..Len(deps)})

\* C37: in a plan that getExecutionPlan() has returned, no stage comes after
\* a stage whose longest dependency chain is longer than its own; so the
\* stages without dependencies come before all the others.
C37_PlanIsLayeredByDepth ==
    (caller.op = "getExecutionPlan" /\ caller.plan.error = "none")
       => LET ordered == caller.plan.ordered
          IN \A i \in 1..Len(ordered), j \in 1..Len(ordered) :
                i < j => ChainLength(stages, ordered[i])
                            <= ChainLength(stages, ordered[j])

\* A plan was returned in which a stage without dependencies, registered
\* last, comes before a stage registered earlier that has a dependency.
C37_Witness ==
    /\ caller.op = "getExecutionPlan"
    /\ caller.plan.error = "none"
    /\ Len(stages) = 3
    /\ caller.plan.ordered = <<stages[1].id, stages[3].id, stages[2].id>>
    /\ ChainLength(stages, stages[2].id) = 1
    /\ ChainLength(stages, stages[3].id) = 0

\* text begins with the words of prefix.
StartsWith(text, prefix) ==
    /\ Len(text) >= Len(prefix)
    /\ SubSeq(text, 1, Len(prefix)) = prefix

\* The output traced for the last layer whose call did not fail, or the
\* initial input when every call failed.
RECURSIVE OutputOfLastSuccess(_, _, _)
OutputOfLastSuccess(trace, failed, k) ==
    IF k = 0 THEN InitialInput
    ELSE IF trace[k].layer \notin failed THEN trace[k].output
    ELSE OutputOfLastSuccess(trace, failed, k - 1)

IterationCount(e, layerId) ==
    IF layerId \in DOMAIN e.loopStates
    THEN e.loopStates[layerId].iterationCount ELSE 0

\* C39: a call of enforceLoop makes at least one and at most maxIterations
\* passes and raises the layer's iterationCount by the number of passes it
\* made, starting from the count the layer had (0 when it has no state); a
\* call for a layer whose count has reached maxIterations makes one pass; the
\* state of the other layers is left alone; resetLoopState removes the
\* layer's state, and nothing but enforceLoop and resetLoopState changes a
\* count.
C39_EnforceLoopIsBounded ==
    [][/\ (caller'.op = "enforceLoop" /\ caller'.calls = caller.calls + 1)
             => LET id == caller'.layerId
                    before == IterationCount(enforcer, id)
                IN /\ caller'.passes >= 1
                   /\ caller'.passes <= maxIterations
                   /\ IterationCount(enforcer', id) = before + caller'.passes
                   /\ before >= maxIterations => caller'.passes = 1
                   /\ before < maxIterations
                         => IterationCount(enforcer', id) <= maxIterations
                   /\ \A layer \in LoopLayers :
                         layer.id # id
                            => IterationCount(enforcer', layer.id)
                                  = IterationCount(enforcer, layer.id)
       /\ (caller'.op = "resetLoopState" /\ caller' # caller)
             => /\ caller'.layerId \notin DOMAIN enforcer'.loopStates
                /\ IterationCount(enforcer', caller'.layerId) = 0
       /\ caller'.op \notin {"enforceLoop", "resetLoopState"}
             => \A layer \in LoopLayers :
                   IterationCount(enforcer', layer.id)
                      = IterationCount(enforcer, layer.id)]_vars

\* A layer whose count had gone past maxIterations, one pass at a call, was
\* reset and called again: the call made maxIterations passes and the count
\* is maxIterations.
C39_Witness ==
    /\ caller.op = "enforceLoop"
    /\ caller.layerId \in DOMAIN caller.resetAt
    /\ caller.resetAt[caller.layerId] > maxIterations
    /\ caller.passes = maxIterations
    /\ IterationCount(enforcer, caller.layerId) = maxIterations

====
